---------------------------- MODULE Spec2Model ----------------------------
(***************************************************************************)
(* A model of pynecore's data-acquisition layer: the timeframe codecs of   *)
(* the two built-in providers, CCXTProvider.download_ohlcv,                *)
(* CapitalComProvider.download_ohlcv and the resume step of the download   *)
(* command.                                                                *)
(*                                                                         *)
(* Strings are sequences of one-character strings ("60m" is                *)
(* <<"6","0","m">>), so that parsing and formatting are computed.          *)
(* Instants are integers: milliseconds since the epoch for the CCXT        *)
(* provider and the download command (CCXT rows carry milliseconds),       *)
(* seconds since the epoch for the Capital.com provider.  A bar is         *)
(* represented by its timestamp; the price fields are copied through by    *)
(* the code and are left out.                                              *)
(***************************************************************************)
EXTENDS Integers, Sequences, FiniteSets, TLC

VARIABLES
    \* timeframe codec
    tf_pc, tf_provider, tf_dir, tf_in, tf_mid, tf_back, tf_again,
    \* download_ohlcv (one provider instance, one call at a time)
    provider, timeframe, xchg_timeframe, time_from, time_to, tf, all_data,
    events, stored, pc, fetches, error, raised,
    \* the callback, and the download command
    on_progress, run, first_stored, caller_from,
    caller_from_aware, from_aware, to_aware, truncate,
    \* get_symbol_info: the provider's path, the metadata file, the source
    si_path, si_file, si_source, si_log,
    \* the plugin manager: the entry points installed, whether the built-in
    \* providers import, _discovered_plugins, _loaded_plugins,
    \* _plugin_providers, the last call, the names whose load has failed
    pm_eps, pm_builtins, pm_discovered, pm_loaded, pm_cache, pm_last,
    pm_failed,
    \* CapitalComProvider.__call__: the tokens, the calls in progress, the
    \* requests sent by the current top-level call
    cc_security_token, cc_cst_token, cc_config, cc_stack, cc_log, cc_pc,
    cc_calls,
    \* CCXTProvider.__init__: providers.toml and the configuration handed
    \* to the CCXT client
    cx_file, cx_client, cx_pc,
    \* update_symbol_info: the tick size and the price scale made from it
    ps_provider, ps_mintick, ps_pricescale, ps_minmove, ps_pc,
    \* the bar-file writer of a provider: who uses the provider, the
    \* writer, the position of the use, what was done to the writer
    wr_use, wr_file, wr_pc, wr_log,
    \* get_ohlcv_path: two calls' arguments and the paths they gave
    gp_pc, gp_first, gp_second, gp_paths,
    \* the generated template provider's download_ohlcv: its arguments (seconds),
    \* the timestamps it has stored, the error it raised
    tp_pc, tp_timeframe, tp_from, tp_to, tp_stored, tp_error

tfVars == <<tf_pc, tf_provider, tf_dir, tf_in, tf_mid, tf_back, tf_again>>
dlVars == <<provider, timeframe, xchg_timeframe, time_from, time_to, tf,
            all_data, events, stored, pc, fetches, error, raised>>
cliVars == <<on_progress, run, first_stored, caller_from,
             caller_from_aware, from_aware, to_aware, truncate>>
infoVars == <<si_path, si_file, si_source, si_log>>
plugVars == <<pm_eps, pm_builtins, pm_discovered, pm_loaded, pm_cache,
              pm_last, pm_failed>>
apiVars == <<cc_security_token, cc_cst_token, cc_config, cc_stack, cc_log,
             cc_pc, cc_calls>>
ctorVars == <<cx_file, cx_client, cx_pc>>
scaleVars == <<ps_provider, ps_mintick, ps_pricescale, ps_minmove, ps_pc>>
writerVars == <<wr_use, wr_file, wr_pc, wr_log>>
pathVars == <<gp_pc, gp_first, gp_second, gp_paths>>
tplVars == <<tp_pc, tp_timeframe, tp_from, tp_to, tp_stored, tp_error>>
extVars == <<infoVars, plugVars, apiVars, ctorVars, scaleVars,
             writerVars,
             pathVars,
             tplVars>>
\* what each part outside the download leaves alone
exceptInfo == <<tfVars, dlVars, cliVars, plugVars, apiVars, ctorVars,
                scaleVars,
    writerVars,
    pathVars,
    tplVars>>
exceptPlug == <<tfVars, dlVars, cliVars, infoVars, apiVars, ctorVars,
                scaleVars,
    writerVars,
    pathVars,
    tplVars>>
exceptApi == <<tfVars, dlVars, cliVars, infoVars, plugVars, ctorVars,
               scaleVars,
    writerVars,
    pathVars,
    tplVars>>
exceptCtor == <<tfVars, dlVars, cliVars, infoVars, plugVars, apiVars,
                scaleVars,
    writerVars,
    pathVars,
    tplVars>>
exceptScale == <<tfVars, dlVars, cliVars, infoVars, plugVars, apiVars,
                 ctorVars,
    writerVars,
    pathVars,
    tplVars>>
exceptWriter == <<tfVars, dlVars, cliVars,
    infoVars, plugVars, apiVars, ctorVars, scaleVars,
    pathVars,
    tplVars>>
exceptPath == <<tfVars, dlVars, cliVars,
    infoVars, plugVars, apiVars, ctorVars, scaleVars, writerVars,
    tplVars>>
exceptTpl == <<tfVars, dlVars, cliVars,
    infoVars, plugVars, apiVars, ctorVars, scaleVars, writerVars, pathVars>>
vars == <<tfVars, dlVars, cliVars, extVars>>

---------------------------------------------------------------------------
(* Bounds of the model *)

\* longest timeframe string given to a codec
MaxLen == 3
\* rows the exchange returns in all, over the pages of one download_ohlcv call
MaxRows == 4
\* fetch calls followed in one download_ohlcv call
MaxFetch == 2
\* the CCXT instants are the days 0..MaxSlot
MaxSlot == 2
\* the Capital.com instants are the half chunks 0..MaxCapSlot
MaxCapSlot == 4

---------------------------------------------------------------------------
(* Strings *)

Digits == {"0", "1", "2", "3", "4", "5", "6", "7", "8", "9"}

DigitVal(c) ==
    CASE c = "0" -> 0 [] c = "1" -> 1 [] c = "2" -> 2 [] c = "3" -> 3
      [] c = "4" -> 4 [] c = "5" -> 5 [] c = "6" -> 6 [] c = "7" -> 7
      [] c = "8" -> 8 [] c = "9" -> 9

DigitChar(d) ==
    CASE d = 0 -> "0" [] d = 1 -> "1" [] d = 2 -> "2" [] d = 3 -> "3"
      [] d = 4 -> "4" [] d = 5 -> "5" [] d = 6 -> "6" [] d = 7 -> "7"
      [] d = 8 -> "8" [] d = 9 -> "9"

\* str.isdigit(): non-empty and every character a digit
isdigit(s) == Len(s) > 0 /\ \A i \in 1..Len(s) : s[i] \in Digits

\* int(s) of a digit string
RECURSIVE int(_)
int(s) ==
    IF Len(s) = 0 THEN 0
    ELSE 10 * int(SubSeq(s, 1, Len(s) - 1)) + DigitVal(s[Len(s)])

\* str(n), n >= 0: decimal, no leading zero
RECURSIVE str(_)
str(n) ==
    IF n < 10 THEN <<DigitChar(n)>>
    ELSE str(n \div 10) \o <<DigitChar(n % 10)>>

\* str.upper() on one character
UpperChar(c) ==
    CASE c = "a" -> "A" [] c = "b" -> "B" [] c = "c" -> "C" [] c = "d" -> "D"
      [] c = "e" -> "E" [] c = "f" -> "F" [] c = "g" -> "G" [] c = "h" -> "H"
      [] c = "i" -> "I" [] c = "j" -> "J" [] c = "k" -> "K" [] c = "l" -> "L"
      [] c = "m" -> "M" [] c = "n" -> "N" [] c = "o" -> "O" [] c = "p" -> "P"
      [] c = "q" -> "Q" [] c = "r" -> "R" [] c = "s" -> "S" [] c = "t" -> "T"
      [] c = "u" -> "U" [] c = "v" -> "V" [] c = "w" -> "W" [] c = "x" -> "X"
      [] c = "y" -> "Y" [] c = "z" -> "Z"
      [] OTHER -> c

upper(s) == [i \in 1..Len(s) |-> UpperChar(s[i])]

\* the ValueError both codecs raise; no timeframe string equals it
ValueError == <<"ValueError">>

\* the sequences over A of length at most n
RECURSIVE StringsUpTo(_, _)
StringsUpTo(A, n) ==
    IF n = 0 THEN {<<>>}
    ELSE LET S == StringsUpTo(A, n - 1)
         IN  S \cup {Append(s, c) : s \in S, c \in A}

---------------------------------------------------------------------------
(* CCXTProvider timeframe codec *)

CCXT_to_tradingview_timeframe(tfstr) ==
    IF Len(tfstr) < 2 THEN ValueError
    ELSE LET unit == tfstr[Len(tfstr)]
             value == SubSeq(tfstr, 1, Len(tfstr) - 1)
         IN  IF ~isdigit(value) \/ int(value) <= 0 THEN ValueError
             ELSE CASE unit = "m" -> value
                    [] unit = "h" -> str(int(value) * 60)
                    [] unit = "d" -> value \o <<"D">>
                    [] unit = "w" -> value \o <<"W">>
                    [] unit = "M" -> value \o <<"M">>
                    [] OTHER -> ValueError

CCXT_to_exchange_timeframe(tfstr) ==
    IF isdigit(tfstr)
    THEN LET mins == int(tfstr)
         IN  IF mins <= 0 THEN ValueError
             ELSE IF mins >= 60 /\ mins % 60 = 0
                  THEN str(mins \div 60) \o <<"h">>
                  ELSE str(mins) \o <<"m">>
    ELSE IF Len(tfstr) < 2 THEN ValueError
    ELSE LET unit == UpperChar(tfstr[Len(tfstr)])
             value == SubSeq(tfstr, 1, Len(tfstr) - 1)
         IN  IF ~isdigit(value) \/ int(value) <= 0 THEN ValueError
             ELSE CASE unit = "D" -> value \o <<"d">>
                    [] unit = "W" -> value \o <<"w">>
                    [] unit = "M" -> value \o <<"M">>
                    [] OTHER -> ValueError

---------------------------------------------------------------------------
(* CapitalComProvider timeframe codec *)

\* a table in which two keys share a native name
TIMEFRAMES_items_dup ==
    << <<<<"1">>, <<"M", "I", "N", "U", "T", "E">>>>,
       <<<<"5">>, <<"M", "I", "N", "U", "T", "E", "_", "5">>>>,
       <<<<"1", "0">>, <<"M", "I", "N", "U", "T", "E", "_", "1", "0">>>>,
       <<<<"1", "5">>, <<"M", "I", "N", "U", "T", "E", "_", "1", "5">>>>,
       <<<<"3", "0">>, <<"M", "I", "N", "U", "T", "E", "_", "3", "0">>>>,
       <<<<"6", "0">>, <<"H", "O", "U", "R">>>>,
       <<<<"1", "2", "0">>, <<"H", "O", "U", "R">>>>,
       <<<<"2", "4", "0">>, <<"H", "O", "U", "R", "_", "4">>>>,
       <<<<"1", "D">>, <<"D", "A", "Y">>>>,
       <<<<"1", "W">>, <<"W", "E", "E", "K">>>>,
       <<<<"1", "M">>, <<"M", "O", "N", "T", "H">>>> >>

\* the dict TIMEFRAMES, as its items in source order: <<key, value>>
TIMEFRAMES_items ==
    << <<<<"1">>, <<"M", "I", "N", "U", "T", "E">>>>,
       <<<<"5">>, <<"M", "I", "N", "U", "T", "E", "_", "5">>>>,
       <<<<"1", "0">>, <<"M", "I", "N", "U", "T", "E", "_", "1", "0">>>>,
       <<<<"1", "5">>, <<"M", "I", "N", "U", "T", "E", "_", "1", "5">>>>,
       <<<<"3", "0">>, <<"M", "I", "N", "U", "T", "E", "_", "3", "0">>>>,
       <<<<"6", "0">>, <<"H", "O", "U", "R">>>>,
       <<<<"1", "2", "0">>, <<"H", "O", "U", "R", "_", "2">>>>,
       <<<<"2", "4", "0">>, <<"H", "O", "U", "R", "_", "4">>>>,
       <<<<"1", "D">>, <<"D", "A", "Y">>>>,
       <<<<"1", "W">>, <<"W", "E", "E", "K">>>>,
       <<<<"1", "M">>, <<"M", "O", "N", "T", "H">>>> >>

TIMEFRAMES_keys == {TIMEFRAMES_items[i][1] : i \in 1..Len(TIMEFRAMES_items)}

\* a dict built from items: a later item replaces an earlier one of the same key
DictGet(items, key) ==
    LET hits == {i \in 1..Len(items) : items[i][1] = key}
    IN  items[CHOOSE i \in hits : \A j \in hits : j <= i][2]

TIMEFRAMES(key) == DictGet(TIMEFRAMES_items, key)

\* {v: k for k, v in TIMEFRAMES.items()}
TIMEFRAMES_INV_items ==
    [i \in 1..Len(TIMEFRAMES_items) |->
        <<TIMEFRAMES_items[i][2], TIMEFRAMES_items[i][1]>>]

TIMEFRAMES_INV_keys ==
    {TIMEFRAMES_INV_items[i][1] : i \in 1..Len(TIMEFRAMES_INV_items)}

TIMEFRAMES_INV(key) == DictGet(TIMEFRAMES_INV_items, key)

CapitalCom_to_tradingview_timeframe(tfstr) ==
    IF upper(tfstr) \in TIMEFRAMES_INV_keys
    THEN TIMEFRAMES_INV(upper(tfstr))
    ELSE ValueError

CapitalCom_to_exchange_timeframe(tfstr) ==
    IF tfstr \in TIMEFRAMES_keys
    THEN TIMEFRAMES(tfstr)
    ELSE ValueError

---------------------------------------------------------------------------
(* The codecs as a state machine: a timeframe string is converted, the     *)
(* result converted back, and that result converted again.  A conversion   *)
(* that raises ends the chain.                                             *)

to_tradingview_timeframe(p, s) ==
    IF p = "ccxt" THEN CCXT_to_tradingview_timeframe(s)
    ELSE CapitalCom_to_tradingview_timeframe(s)

to_exchange_timeframe(p, s) ==
    IF p = "ccxt" THEN CCXT_to_exchange_timeframe(s)
    ELSE CapitalCom_to_exchange_timeframe(s)

Convert(p, dir, s) ==
    IF dir = "to_tradingview" THEN to_tradingview_timeframe(p, s)
    ELSE to_exchange_timeframe(p, s)

Opposite(dir) ==
    IF dir = "to_tradingview" THEN "to_exchange" ELSE "to_tradingview"

TfAlphabet == {"0", "1", "6", "m", "h", "d", "w", "M", "D", "W", "x"}

TfInputs ==
    StringsUpTo(TfAlphabet, MaxLen)
        \cup TIMEFRAMES_keys \cup TIMEFRAMES_INV_keys
        \cup {<<"d", "a", "y">>, <<"H", "o", "u", "r">>, <<"1", "d">>}

TfIdle ==
    /\ tf_pc = "off" /\ tf_provider = "none" /\ tf_dir = "none"
    /\ tf_in = <<>> /\ tf_mid = <<>> /\ tf_back = <<>> /\ tf_again = <<>>

TfInit ==
    /\ tf_pc = "input"
    /\ tf_provider \in {"ccxt", "capitalcom"}
    /\ tf_dir \in {"to_tradingview", "to_exchange"}
    /\ tf_in \in TfInputs
    /\ tf_mid = <<>> /\ tf_back = <<>> /\ tf_again = <<>>

TfConvert ==
    /\ tf_pc = "input"
    /\ tf_mid' = Convert(tf_provider, tf_dir, tf_in)
    /\ tf_pc' = "converted"
    /\ UNCHANGED <<tf_provider, tf_dir, tf_in, tf_back, tf_again>>
    /\ UNCHANGED <<dlVars, cliVars, extVars>>

TfConvertBack ==
    /\ tf_pc = "converted"
    /\ tf_mid # ValueError
    /\ tf_back' = Convert(tf_provider, Opposite(tf_dir), tf_mid)
    /\ tf_pc' = "back"
    /\ UNCHANGED <<tf_provider, tf_dir, tf_in, tf_mid, tf_again>>
    /\ UNCHANGED <<dlVars, cliVars, extVars>>

TfConvertAgain ==
    /\ tf_pc = "back"
    /\ tf_back # ValueError
    /\ tf_again' = Convert(tf_provider, tf_dir, tf_back)
    /\ tf_pc' = "again"
    /\ UNCHANGED <<tf_provider, tf_dir, tf_in, tf_mid, tf_back>>
    /\ UNCHANGED <<dlVars, cliVars, extVars>>

---------------------------------------------------------------------------
(* Sequences *)

Range(f) == {f[i] : i \in DOMAIN f}

Min(a, b) == IF a <= b THEN a ELSE b

Last(q) == q[Len(q)]

Front(q) == SubSeq(q, 1, Len(q) - 1)

\* the elements of a finite set of integers, ascending
RECURSIVE Ascending(_)
Ascending(S) ==
    IF S = {} THEN <<>>
    ELSE LET m == CHOOSE x \in S : \A y \in S : x <= y
         IN  <<m>> \o Ascending(S \ {m})

StrictlyIncreasing(q) == \A i \in 1..(Len(q) - 1) : q[i] < q[i + 1]

---------------------------------------------------------------------------
(* Instants and the source *)

\* timedelta(days=1), timedelta(hours=1), timedelta(minutes=1), milliseconds
Day == 86400000
Hour == 3600000
Minute == 60000
\* timedelta(days=1) in seconds, the unit of the Capital.com model
CapDay == 86400

CcxtInstants == {k * Day : k \in 0..MaxSlot}

\* the ends of the window: the days, and an instant between two days
CcxtEnds == CcxtInstants \cup {Day + Hour}

\* the timestamps (ms) a row of the exchange may carry: the days, and one
\* that falls inside the second of another
RowTimes == CcxtInstants \cup {Day + 500}

\* the log of one download_ohlcv call
Progress(t) == <<"progress", t>>
Fetch(since, res) == <<"fetch", since, res>>
\* get_historical_prices(from_date, to_date): the same, with the end asked
FetchWindow(from_date, to_date, res) == <<"fetch", from_date, res, to_date>>
Save(t) == <<"save", t>>
SaveEvents(ts) == [i \in 1..Len(ts) |-> Save(ts[i])]

IsProgress(e) == e[1] = "progress"
IsFetch(e) == e[1] = "fetch"
IsSave(e) == e[1] = "save"

\* the rows fetch_ohlcv has returned so far
RECURSIVE RowsSeen(_)
RowsSeen(ev) ==
    IF ev = <<>> THEN 0
    ELSE RowsSeen(Front(ev)) + (IF IsFetch(Last(ev)) THEN Len(Last(ev)[3]) ELSE 0)

\* fetch_ohlcv answers with any page of rows, in any order
Pages(ev) == StringsUpTo(RowTimes, MaxRows - RowsSeen(ev))

\* the timestamps handed to save_ohlcv_data, in order
RECURSIVE Saved(_)
Saved(ev) ==
    IF ev = <<>> THEN <<>>
    ELSE Saved(Front(ev)) \o (IF IsSave(Last(ev)) THEN <<Last(ev)[2]>> ELSE <<>>)

\* Provider.save_ohlcv_data: the writer appends the bars to the file
save_ohlcv_data(file, bars) == file \o bars


---------------------------------------------------------------------------
(* What download_ohlcv raises *)

\* nothing raised
NoException == <<>>

\* an exception that leaves download_ohlcv as it was raised
Propagates(cause) == <<cause>>

\* raise CapitalComError(f"Error downloading OHLCV data: {str(e)}")
CapitalComError(cause) ==
    <<"CapitalComError", "Error downloading OHLCV data: ", cause>>

---------------------------------------------------------------------------
(* The progress callback *)

\* datetime.__sub__: a naive and an aware datetime cannot be subtracted
\* (TypeError)
Subtractable(a_aware, b_aware) == a_aware = b_aware

\* what a call on_progress(current_date) can do.  The providers pass a naive
\* datetime.  A caller's own callback may return, raise, or raise
\* StopIteration; the command's cb_progress computes
\* (current_date - from_date) and returns.
ProgressOutcomes ==
    IF on_progress = "any" THEN {"returns", "raises", "StopIteration"}
    ELSE IF Subtractable(FALSE, from_aware) THEN {"returns"}
    ELSE {"raises"}

---------------------------------------------------------------------------
(* CCXTProvider.download_ohlcv *)

\* int(r[0] / 1000)
ToSeconds(ms) == ms \div 1000

\* datetime.fromtimestamp(t, UTC).replace(tzinfo=None), as milliseconds
FromTimestamp(t) == t * 1000

\* a loop that also runs at the end instant
CcxtWhile_inclusive(cursor, tt) == cursor <= tt

\* while tf < tt
CcxtWhile(cursor, tt) == cursor < tt

\* a filter that forgets the lower end of the range
RECURSIVE InRangeRows_no_lower(_, _, _)
InRangeRows_no_lower(res, from, tt) ==
    IF res = <<>> THEN <<>>
    ELSE LET dt == FromTimestamp(ToSeconds(Head(res)))
         IN  IF dt > tt THEN <<>>
             ELSE <<Head(res)>> \o InRangeRows_no_lower(Tail(res), from, tt)

\* the rows of a page added to all_data
RECURSIVE InRangeRows(_, _, _)
InRangeRows(res, from, tt) ==
    IF res = <<>> THEN <<>>
    ELSE LET dt == FromTimestamp(ToSeconds(Head(res)))
         IN  IF dt > tt THEN <<>>
             ELSE (IF dt >= from THEN <<Head(res)>> ELSE <<>>)
                     \o InRangeRows(Tail(res), from, tt)

\* a cursor that stays where it is
EmptyPageCursor_stalls(cursor) == cursor

\* "if not res: tf += timedelta(days=1); continue"
EmptyPageCursor(cursor) == cursor + Day

\* the step added to the last row's time
Interval(xt) ==
    LET n == int(Front(xt))
        unit == Last(xt)
    IN  CASE unit = "d" -> n * Day
          [] unit = "h" -> n * Hour
          [] unit = "m" -> n * Minute
          [] OTHER -> Day

NextCursor(res, xt) == FromTimestamp(ToSeconds(Last(res))) + Interval(xt)

\* list.sort(key=lambda x: x[0]): stable
RECURSIVE InsertSorted(_, _)
InsertSorted(q, x) ==
    IF q = <<>> THEN <<x>>
    ELSE IF Last(q) <= x THEN Append(q, x)
    ELSE Append(InsertSorted(Front(q), x), Last(q))

RECURSIVE SortByTimestamp(_)
SortByTimestamp(q) ==
    IF q = <<>> THEN <<>>
    ELSE InsertSorted(SortByTimestamp(Front(q)), Last(q))

\* the rows whose r[0] was not seen before
RECURSIVE UniqueData(_)
UniqueData(q) ==
    IF q = <<>> THEN <<>>
    ELSE LET u == UniqueData(Front(q))
         IN  IF Last(q) \in Range(u) THEN u ELSE Append(u, Last(q))

\* the timestamps of the bars saved after the loop
CcxtBars(data) ==
    LET unique_data == UniqueData(SortByTimestamp(data))
    IN  [i \in 1..Len(unique_data) |-> ToSeconds(unique_data[i])]

\* an end that reports completion only when data was found
CcxtAfterLoop_silent(ev, data) ==
    /\ stored' = save_ohlcv_data(stored, CcxtBars(data))
    /\ \E o \in ProgressOutcomes :
        /\ events' = ev \o SaveEvents(CcxtBars(data))
                        \o (IF data = <<>> THEN <<>>
                            ELSE <<Progress(time_to)>>)
        /\ pc' = IF o = "returns" THEN "returned" ELSE "raised"
        /\ error' = IF o = "returns" THEN "none" ELSE "callback"
        /\ raised' = IF o = "returns" THEN NoException
                      ELSE Propagates("callback")

\* after the loop: sort, remove duplicates, save, on_progress(tt); what the
\* last callback raises is raised by download_ohlcv
CcxtAfterLoop(ev, data) ==
    /\ stored' = save_ohlcv_data(stored, CcxtBars(data))
    /\ \E o \in ProgressOutcomes :
        /\ events' = ev \o SaveEvents(CcxtBars(data)) \o <<Progress(time_to)>>
        /\ pc' = IF o = "returns" THEN "returned" ELSE "raised"
        /\ error' = IF o = "returns" THEN "none" ELSE "callback"
        /\ raised' = IF o = "returns" THEN NoException
                      ELSE Propagates("callback")

CcxtInLoop ==
    /\ provider = "ccxt"
    /\ pc = "loop"
    /\ CcxtWhile(tf, time_to)

\* on_progress(tf) has returned and fetch_ohlcv is called
CcxtFetching ==
    /\ CcxtInLoop
    /\ "returns" \in ProgressOutcomes
    /\ fetches < MaxFetch

\* an iteration that saves the rows of its page at once
CcxtFetch_saves_pages ==
    /\ CcxtFetching
    /\ \E res \in Pages(events) :
        /\ events' = events \o <<Progress(tf), Fetch(tf, res)>>
        /\ IF res = <<>>
           THEN /\ tf' = EmptyPageCursor(tf)
                /\ UNCHANGED <<all_data, stored>>
           ELSE /\ all_data' = all_data \o InRangeRows(res, time_from, time_to)
                /\ stored' = save_ohlcv_data(
                                stored,
                                CcxtBars(InRangeRows(res, time_from, time_to)))
                /\ tf' = NextCursor(res, xchg_timeframe)
    /\ fetches' = fetches + 1
    /\ UNCHANGED <<provider, timeframe, xchg_timeframe, time_from, time_to,
                   pc, error, raised>>
    /\ UNCHANGED <<tfVars, cliVars, extVars>>

\* one iteration: on_progress(tf), fetch_ohlcv, the page collected
CcxtFetch ==
    /\ CcxtFetching
    /\ \E res \in Pages(events) :
        /\ events' = events \o <<Progress(tf), Fetch(tf, res)>>
        /\ IF res = <<>>
           THEN /\ tf' = EmptyPageCursor(tf)
                /\ UNCHANGED all_data
           ELSE /\ all_data' = all_data \o InRangeRows(res, time_from, time_to)
                /\ tf' = NextCursor(res, xchg_timeframe)
    /\ fetches' = fetches + 1
    /\ UNCHANGED <<provider, timeframe, xchg_timeframe, time_from, time_to,
                   stored, pc, error, raised>>
    /\ UNCHANGED <<tfVars, cliVars, extVars>>

\* fetch_ohlcv raises: the loop catches StopIteration only
CcxtFetchRaises ==
    /\ CcxtFetching
    /\ events' = events \o <<Progress(tf), Fetch(tf, <<>>)>>
    /\ pc' = "raised"
    /\ error' = "fetch"
    /\ raised' = Propagates("fetch")
    /\ fetches' = fetches + 1
    /\ UNCHANGED <<provider, timeframe, xchg_timeframe, time_from, time_to,
                   tf, all_data, stored>>
    /\ UNCHANGED <<tfVars, cliVars, extVars>>

\* fetch_ohlcv raises StopIteration: the loop is left
CcxtFetchStops ==
    /\ CcxtFetching
    /\ CcxtAfterLoop(events \o <<Progress(tf), Fetch(tf, <<>>)>>, all_data)
    /\ fetches' = fetches + 1
    /\ UNCHANGED <<provider, timeframe, xchg_timeframe, time_from, time_to,
                   tf, all_data>>
    /\ UNCHANGED <<tfVars, cliVars, extVars>>

\* on_progress(tf) raises StopIteration: the loop is left
CcxtProgressStops ==
    /\ CcxtInLoop
    /\ "StopIteration" \in ProgressOutcomes
    /\ CcxtAfterLoop(events \o <<Progress(tf)>>, all_data)
    /\ UNCHANGED <<provider, timeframe, xchg_timeframe, time_from, time_to,
                   tf, all_data, fetches>>
    /\ UNCHANGED <<tfVars, cliVars, extVars>>

\* on_progress(tf) raises something else: nothing is saved
CcxtProgressRaises ==
    /\ CcxtInLoop
    /\ "raises" \in ProgressOutcomes
    /\ events' = events \o <<Progress(tf)>>
    /\ pc' = "raised"
    /\ error' = "callback"
    /\ raised' = Propagates("callback")
    /\ UNCHANGED <<provider, timeframe, xchg_timeframe, time_from, time_to,
                   tf, all_data, stored, fetches>>
    /\ UNCHANGED <<tfVars, cliVars, extVars>>

\* the loop condition fails
CcxtFinish ==
    /\ provider = "ccxt"
    /\ pc = "loop"
    /\ ~CcxtWhile(tf, time_to)
    /\ CcxtAfterLoop(events, all_data)
    /\ UNCHANGED <<provider, timeframe, xchg_timeframe, time_from, time_to,
                   tf, all_data, fetches>>
    /\ UNCHANGED <<tfVars, cliVars, extVars>>

---------------------------------------------------------------------------
(* The fetch loop of CCXTProvider.download_ohlcv, without the log of the
   call: a state the loop comes back to is the same state *)

\* rows in one page of the loop
MaxPage == 2
\* rows the loop collects in all
MaxCollected == 2
LoopPages == StringsUpTo(RowTimes, MaxPage)
LoopStarts == CcxtInstants
LoopEnds == {k * Day : k \in 1..(MaxSlot + 1)}

\* one iteration of the loop: on_progress(tf) returns, fetch_ohlcv answers
\* with a page, the rows in range are collected, the cursor is set
CcxtIteration ==
    /\ CcxtInLoop
    /\ "returns" \in ProgressOutcomes
    /\ \E res \in LoopPages :
        IF res = <<>>
        THEN /\ tf' = EmptyPageCursor(tf)
             /\ UNCHANGED all_data
        ELSE /\ Len(all_data) + Len(InRangeRows(res, time_from, time_to))
                    <= MaxCollected
             /\ all_data' = all_data \o InRangeRows(res, time_from, time_to)
             /\ tf' = NextCursor(res, xchg_timeframe)
    /\ UNCHANGED <<provider, timeframe, xchg_timeframe, time_from, time_to,
                   events, stored, pc, fetches, error, raised>>
    /\ UNCHANGED <<tfVars, cliVars, extVars>>

---------------------------------------------------------------------------
(* CapitalComProvider.download_ohlcv; instants in seconds *)

MinuteTimeframes ==
    {<<"M", "I", "N", "U", "T", "E">>,
     <<"M", "I", "N", "U", "T", "E", "_", "5">>,
     <<"M", "I", "N", "U", "T", "E", "_", "1", "0">>,
     <<"M", "I", "N", "U", "T", "E", "_", "1", "5">>,
     <<"M", "I", "N", "U", "T", "E", "_", "3", "0">>}

HourTimeframes ==
    {<<"H", "O", "U", "R">>,
     <<"H", "O", "U", "R", "_", "2">>,
     <<"H", "O", "U", "R", "_", "4">>}

chunk_size(xt) ==
    IF xt \in MinuteTimeframes THEN 7 * CapDay
    ELSE IF xt \in HourTimeframes THEN 30 * CapDay
    ELSE 365 * CapDay

\* while current_from < tt
CapWhile(current_from, tt) == current_from < tt

\* a chunk that always has the full size
CurrentTo_unclamped(current_from, xt, tt) == current_from + chunk_size(xt)

\* min(current_from + chunk_size, tt)
CurrentTo(current_from, xt, tt) == Min(current_from + chunk_size(xt), tt)

\* the instants of the model: the half chunks
CapInstants(xt) == {k * (chunk_size(xt) \div 2) : k \in 0..MaxCapSlot}

\* get_historical_prices: the bars the source holds between from_date and
\* to_date, both included, ascending
CapPages(xt, from_date, to_date) ==
    {Ascending(S) :
        S \in SUBSET {t \in CapInstants(xt) : from_date <= t /\ t <= to_date}}

\* int(datetime.fromisoformat(snapshotTime).timestamp())
CapTimestamp(snapshot) == snapshot

CapBars(prices) == [i \in 1..Len(prices) |-> CapTimestamp(prices[i])]

CapInLoop ==
    /\ provider = "capitalcom"
    /\ pc = "loop"
    /\ CapWhile(tf, time_to)

\* one chunk: on_progress, get_historical_prices, each bar saved
CapFetch ==
    /\ CapInLoop
    /\ "returns" \in ProgressOutcomes
    /\ LET current_to == CurrentTo(tf, xchg_timeframe, time_to)
       IN  /\ \E prices \in CapPages(xchg_timeframe, tf, current_to) :
                /\ events' = events
                                \o <<Progress(tf),
                                      FetchWindow(tf, current_to, prices)>>
                                \o SaveEvents(CapBars(prices))
                /\ stored' = save_ohlcv_data(stored, CapBars(prices))
           /\ tf' = current_to
    /\ fetches' = fetches + 1
    /\ UNCHANGED <<provider, timeframe, xchg_timeframe, time_from, time_to,
                   all_data, pc, error, raised>>
    /\ UNCHANGED <<tfVars, cliVars, extVars>>

\* get_historical_prices raises: wrapped in CapitalComError
CapFetchRaises ==
    /\ CapInLoop
    /\ "returns" \in ProgressOutcomes
    /\ events' = events
                    \o <<Progress(tf),
                          FetchWindow(tf, CurrentTo(tf, xchg_timeframe,
                                                    time_to), <<>>)>>
    /\ pc' = "raised"
    /\ error' = "fetch"
    /\ raised' = CapitalComError("fetch")
    /\ fetches' = fetches + 1
    /\ UNCHANGED <<provider, timeframe, xchg_timeframe, time_from, time_to,
                   tf, all_data, stored>>
    /\ UNCHANGED <<tfVars, cliVars, extVars>>

\* on_progress raises (StopIteration too): wrapped in CapitalComError
CapProgressRaises ==
    /\ CapInLoop
    /\ ProgressOutcomes \cap {"raises", "StopIteration"} # {}
    /\ events' = events \o <<Progress(tf)>>
    /\ pc' = "raised"
    /\ error' = "callback"
    /\ raised' = CapitalComError("callback")
    /\ UNCHANGED <<provider, timeframe, xchg_timeframe, time_from, time_to,
                   tf, all_data, stored, fetches>>
    /\ UNCHANGED <<tfVars, cliVars, extVars>>

\* the loop condition fails: on_progress(tt), outside the try block
CapFinish ==
    /\ provider = "capitalcom"
    /\ pc = "loop"
    /\ ~CapWhile(tf, time_to)
    /\ \E o \in ProgressOutcomes :
        /\ events' = events \o <<Progress(time_to)>>
        /\ pc' = IF o = "returns" THEN "returned" ELSE "raised"
        /\ error' = IF o = "returns" THEN "none" ELSE "callback"
        /\ raised' = IF o = "returns" THEN NoException
                      ELSE Propagates("callback")
    /\ UNCHANGED <<provider, timeframe, xchg_timeframe, time_from, time_to,
                   tf, all_data, stored, fetches>>
    /\ UNCHANGED <<tfVars, cliVars, extVars>>

---------------------------------------------------------------------------
(* The download command: the resume step, the progress bar, download_ohlcv *)

\* runs of the command followed
MaxRuns == 2

\* OHLCVReader.end_timestamp: the last stored timestamp, seconds
end_timestamp(file) == Last(file)

\* last_timestamp = reader.end_timestamp / 1000, a number of seconds; kept
\* here in milliseconds
last_timestamp_ms(file) == (end_timestamp(file) * 1000) \div 1000

\* the file exists and "if last_timestamp:" holds
Resumes(file) == Len(file) > 0 /\ last_timestamp_ms(file) # 0

\* from_date after the resume check
ResumeFrom(from_date, file) ==
    IF Resumes(file) THEN last_timestamp_ms(file) ELSE from_date

\* datetime.fromtimestamp(last_timestamp, UTC) is aware
ResumeAware(aware, file) == IF Resumes(file) THEN TRUE ELSE aware

\* "if truncate and ohlcv_path.exists(): os.remove(ohlcv_path)"
Truncated(flag, file) == IF flag THEN <<>> ELSE file

\* the bar file the command may find: none, or one left by an earlier
\* download
CliFiles == {<<>>} \cup {<<ToSeconds(t)>> : t \in CcxtInstants}

\* Provider.get_ohlcv_path(cls, symbol, timeframe, ohlcv_dir,
\* provider_name=None): the parameters without a default
get_ohlcv_path_required == 3

\* a call binds its arguments, or raises TypeError
CallAccepted(given, required) == given >= required

\* one run of the command up to the call of download_ohlcv.  The command
\* calls provider_instance.get_ohlcv_path() with no argument; past that
\* call come the resume check and the progress bar, whose total is
\* (to_date - from_date).  A TypeError in either place ends the command
\* before the download.
CliDownload ==
    /\ provider = "ccxt"
    /\ pc \in {"idle", "returned", "raised", "crashed"}
    /\ run < MaxRuns
    /\ run' = run + 1
    /\ first_stored' = IF run = 1 THEN stored ELSE first_stored
    /\ all_data' = <<>>
    /\ events' = <<>>
    /\ fetches' = 0
    /\ \E flag \in BOOLEAN : truncate' = flag
    /\ IF ~CallAccepted(0, get_ohlcv_path_required)
       THEN /\ pc' = "crashed" /\ error' = "TypeError"
            /\ raised' = Propagates("TypeError")
            /\ UNCHANGED <<time_from, from_aware, tf, stored>>
       ELSE /\ stored' = Truncated(truncate', stored)
            /\ time_from' = ResumeFrom(caller_from, stored')
            /\ from_aware' = ResumeAware(caller_from_aware, stored')
            /\ tf' = time_from'
            /\ IF Subtractable(to_aware, from_aware')
               THEN pc' = "loop" /\ error' = "none"
                    /\ raised' = NoException
               ELSE pc' = "crashed" /\ error' = "TypeError"
                    /\ raised' = Propagates("TypeError")
    /\ UNCHANGED <<provider, timeframe, xchg_timeframe, time_to>>
    /\ UNCHANGED <<on_progress, caller_from,
                   caller_from_aware, to_aware>>
    /\ UNCHANGED <<tfVars, extVars>>

---------------------------------------------------------------------------
(* Provider.get_symbol_info *)

\* calls of get_symbol_info followed
MaxCalls == 3
\* the metadata values the source may report are 1..MaxInfo
MaxInfo == 2

InfoValues == {<<"info", k>> : k \in 1..MaxInfo}

\* no metadata file
Absent == <<"absent">>

\* what update_symbol_info raises
Raised == <<"raised">>

\* SymInfo.save_toml, SymInfo.load_toml: the file holds the metadata saved
save_toml(sym_info) == sym_info
load_toml(file) == file

\* is_symbol_info_exists
is_symbol_info_exists(path, file) == path /\ file # Absent

\* a cache that is never consulted
NeedsUpdate_always(exists, force_update) == TRUE

\* a cache that force_update cannot bypass
NeedsUpdate_ignores_force(exists, force_update) == ~exists

\* not (is_symbol_info_exists() and not force_update)
NeedsUpdate(exists, force_update) == ~(exists /\ ~force_update)

\* one call, as recorded in si_log
InfoCall(force_update, before, updates, result, after) ==
    [force_update |-> force_update, before |-> before, updates |-> updates,
     result |-> result, after |-> after]

\* ohlcv_path is None: ValueError
GetSymbolInfoNoPath ==
    /\ Len(si_log) < MaxCalls
    /\ ~si_path
    /\ \E force_update \in BOOLEAN :
        si_log' = Append(si_log,
                    InfoCall(force_update, si_file, 0, ValueError, si_file))
    /\ UNCHANGED <<si_path, si_file, si_source>>
    /\ UNCHANGED exceptInfo

\* the file exists and force_update is false: the file is loaded
GetSymbolInfoCached ==
    /\ Len(si_log) < MaxCalls
    /\ si_path
    /\ \E force_update \in BOOLEAN :
        /\ ~NeedsUpdate(is_symbol_info_exists(si_path, si_file), force_update)
        /\ si_log' = Append(si_log,
                InfoCall(force_update, si_file, 0, load_toml(si_file), si_file))
    /\ UNCHANGED <<si_path, si_file, si_source>>
    /\ UNCHANGED exceptInfo

\* update_symbol_info, save_toml, return
GetSymbolInfoUpdate ==
    /\ Len(si_log) < MaxCalls
    /\ si_path
    /\ \E force_update \in BOOLEAN :
        /\ NeedsUpdate(is_symbol_info_exists(si_path, si_file), force_update)
        /\ si_file' = save_toml(si_source)
        /\ si_log' = Append(si_log,
                InfoCall(force_update, si_file, 1, si_source, si_file'))
    /\ UNCHANGED <<si_path, si_source>>
    /\ UNCHANGED exceptInfo

\* a call that writes the file before update_symbol_info has returned
GetSymbolInfoUpdateRaises_saves ==
    /\ Len(si_log) < MaxCalls
    /\ si_path
    /\ \E force_update \in BOOLEAN :
        /\ NeedsUpdate(is_symbol_info_exists(si_path, si_file), force_update)
        /\ si_file' = save_toml(si_source)
        /\ si_log' = Append(si_log,
                InfoCall(force_update, si_file, 1, Raised, si_file'))
    /\ UNCHANGED <<si_path, si_source>>
    /\ UNCHANGED exceptInfo

\* update_symbol_info raises: nothing is saved
GetSymbolInfoUpdateRaises ==
    /\ Len(si_log) < MaxCalls
    /\ si_path
    /\ \E force_update \in BOOLEAN :
        /\ NeedsUpdate(is_symbol_info_exists(si_path, si_file), force_update)
        /\ si_log' = Append(si_log,
                InfoCall(force_update, si_file, 1, Raised, si_file))
    /\ UNCHANGED <<si_path, si_file, si_source>>
    /\ UNCHANGED exceptInfo

\* the exchange reports other metadata from now on
SourceChanges ==
    /\ Len(si_log) < MaxCalls
    /\ \E v \in InfoValues \ {si_source} : si_source' = v
    /\ UNCHANGED <<si_path, si_file, si_log>>
    /\ UNCHANGED exceptInfo

InfoIdle ==
    /\ si_path = FALSE /\ si_file = Absent /\ si_source = Absent
    /\ si_log = <<>>

\* a provider constructed with or without ohlcv_dir; the metadata file may
\* be there from an earlier run
InfoInit ==
    /\ si_path \in BOOLEAN
    /\ si_file \in {Absent} \cup InfoValues
    /\ si_source \in InfoValues
    /\ si_log = <<>>

---------------------------------------------------------------------------
(* PluginManager: discovery and loading of plugins *)

\* Optional values: None, or the value
None == <<>>
Some(x) == <<x>>

\* a str as the sequence of its parts; str(e) of an exception with
\* message e
str_e(e) == <<e>>

\* f"Failed to load plugin: {e}"
LoadErrorMsg(e) == <<"Failed to load plugin: ", e>>

\* what dist.version raises, and what import_module or getattr raises
MetadataError == "TypeError"
ImportFailure == "ModuleNotFoundError"

\* _builtin_providers
builtin_providers == {"ccxt", "capitalcom"}

\* self.entry_point_groups, in the order of the dict
entry_point_groups == <<"provider", "indicator", "strategy">>

\* the names external distributions may declare, in the order in which
\* importlib.metadata yields the entry points of a group
EpOrder == <<"alpha", "beta", "ccxt">>
ExternalNames == Range(EpOrder)
Pos(n) == CHOOSE i \in 1..Len(EpOrder) : EpOrder[i] = n

\* the names a caller may ask for; "gamma" is never declared
RequestNames == {"ccxt", "alpha", "gamma"}

\* an installed entry point: its group; whether reading it goes well, or
\* dist.version raises, or entry_point.module raises (a value that is not
\* "module:attr"); whether importing its module and finding its class goes
\* well
EntryPoint(g, m, i) == [group |-> g, meta |-> m, import |-> i]

\* the entry points followed: "alpha" is a provider plugin that works or
\* fails in one of the three ways; "beta" is a plugin of either kind whose
\* metadata may fail; an external distribution may declare the name "ccxt"
EntryPoints(n) ==
    CASE n = "alpha" ->
            {EntryPoint("provider", "ok", "ok"),
             EntryPoint("provider", "ok", "raises"),
             EntryPoint("provider", "version_raises", "ok"),
             EntryPoint("provider", "malformed", "ok")}
      [] n = "beta" ->
            {EntryPoint(g, m, "ok") :
                g \in {"provider", "indicator"},
                m \in {"ok", "version_raises"}}
      [] OTHER ->
            {EntryPoint(g, "ok", "ok") : g \in {"provider", "indicator"}}

\* the sets of entry points a host may have installed
Installed ==
    UNION {{f \in [S -> UNION {EntryPoints(n) : n \in S}] :
                \A n \in S : f[n] \in EntryPoints(n)} :
           S \in SUBSET ExternalNames}

EmptyDict == [n \in {} |-> None]

\* dict.update
Update(d, e) ==
    [n \in DOMAIN d \cup DOMAIN e |-> IF n \in DOMAIN e THEN e[n] ELSE d[n]]

PluginInfo(name, plugin_type, module_name, loaded, err) ==
    [name |-> name, plugin_type |-> plugin_type, module_name |-> module_name,
     installed |-> TRUE, loaded |-> loaded, error |-> err]

\* a test that takes every descriptor for a sound one
HasError_never(info) == FALSE

\* "if info.error": None and the empty string are false
HasError(info) == info.error # None /\ info.error[1] # <<>>

\* _discover_builtin_providers: an ImportError leaves the result empty
discover_builtin_providers ==
    IF pm_builtins
    THEN [n \in builtin_providers |->
            PluginInfo(n, "provider", "builtin", TRUE, None)]
    ELSE EmptyDict

\* groups_to_check
groups_to_check(plugin_type) ==
    IF plugin_type # None /\ plugin_type[1] \in Range(entry_point_groups)
    THEN {plugin_type[1]}
    ELSE Range(entry_point_groups)

\* the entry points of a group reached by the loop: an entry point whose
\* module or attr cannot be read raises again inside the handler that
\* builds its error entry, which ends the loop over the group
Scanned(group) ==
    {n \in DOMAIN pm_eps :
        /\ pm_eps[n].group = group
        /\ \A m \in DOMAIN pm_eps :
            (pm_eps[m].group = group /\ Pos(m) <= Pos(n))
                => pm_eps[m].meta # "malformed"}

\* the descriptor built for an entry point
EntryPointInfo(n) ==
    IF pm_eps[n].meta = "ok"
    THEN PluginInfo(n, pm_eps[n].group, "external", FALSE, None)
    ELSE PluginInfo(n, pm_eps[n].group, "external", FALSE,
                    Some(str_e(MetadataError)))

\* the dict discover_plugins returns
discover_plugins(plugin_type) ==
    Update(IF plugin_type = None \/ plugin_type = Some("provider")
           THEN discover_builtin_providers
           ELSE EmptyDict,
           [n \in UNION {Scanned(g) : g \in groups_to_check(plugin_type)} |->
                EntryPointInfo(n)])

\* importlib.import_module(module_name) and getattr(module, class_name)
Import(info) ==
    IF info.module_name = "builtin" THEN "ok" ELSE pm_eps[info.name].import

\* a call as recorded in pm_last: the method, its arguments, the dict its
\* discovery pass returned (if it made one), the names it returned or
\* displayed, what it returned, whether it imported a module
Call(op, name, plugin_type, did, found, names, value, imported) ==
    [op |-> op, name |-> name, plugin_type |-> plugin_type,
     discovered |-> did, found |-> found, names |-> names, value |-> value,
     imported |-> imported]

\* load_plugin(plugin_name): the registry after the call and what it returns
load_plugin(n) ==
    LET did == n \notin pm_loaded /\ n \notin DOMAIN pm_discovered
        found == IF did THEN discover_plugins(None) ELSE EmptyDict
        d1 == Update(pm_discovered, found)
        same == [discovered |-> d1, loaded |-> pm_loaded,
                 failed |-> pm_failed, did |-> did, found |-> found,
                 value |-> "None", imported |-> FALSE]
    IN  IF n \in pm_loaded THEN [same EXCEPT !.value = "class"]
        ELSE IF n \notin DOMAIN d1 THEN same
        ELSE IF HasError(d1[n]) THEN same
        ELSE IF Import(d1[n]) = "ok"
        THEN [same EXCEPT !.discovered = [d1 EXCEPT ![n].loaded = TRUE],
                          !.loaded = pm_loaded \cup {n},
                          !.value = "class",
                          !.imported = TRUE]
        ELSE [same EXCEPT !.discovered =
                            [d1 EXCEPT ![n].error =
                                Some(LoadErrorMsg(ImportFailure))],
                          !.failed = pm_failed \cup {n},
                          !.imported = TRUE]

\* the plugin_type arguments a caller may give: none, the three kinds, and
\* a string that is not a kind
PluginTypes ==
    {None, Some("provider"), Some("indicator"), Some("strategy"),
     Some("other")}

DiscoverPlugins ==
    /\ \E plugin_type \in PluginTypes :
        LET discovered == discover_plugins(plugin_type)
        IN  /\ pm_discovered' = Update(pm_discovered, discovered)
            /\ pm_last' = Call("discover_plugins", "", plugin_type, TRUE,
                               discovered, {}, "dict", FALSE)
    /\ UNCHANGED <<pm_eps, pm_builtins, pm_loaded, pm_cache, pm_failed>>
    /\ UNCHANGED exceptPlug

LoadPlugin ==
    /\ \E plugin_name \in RequestNames :
        LET r == load_plugin(plugin_name)
        IN  /\ pm_discovered' = r.discovered
            /\ pm_loaded' = r.loaded
            /\ pm_failed' = r.failed
            /\ pm_last' = Call("load_plugin", plugin_name, None, r.did,
                               r.found, {}, r.value, r.imported)
    /\ UNCHANGED <<pm_eps, pm_builtins, pm_cache>>
    /\ UNCHANGED exceptPlug

\* PluginManager.get_available_providers
GetAvailableProviders ==
    /\ LET providers == discover_plugins(Some("provider"))
       IN  /\ pm_discovered' = Update(pm_discovered, providers)
           /\ pm_last' = Call("get_available_providers", "", None, TRUE,
                              providers,
                              {n \in DOMAIN providers :
                                    ~HasError(providers[n])},
                              "list", FALSE)
    /\ UNCHANGED <<pm_eps, pm_builtins, pm_loaded, pm_cache, pm_failed>>
    /\ UNCHANGED exceptPlug

GetPluginInfo ==
    /\ \E plugin_name \in RequestNames :
        LET did == plugin_name \notin DOMAIN pm_discovered
            found == IF did THEN discover_plugins(None) ELSE EmptyDict
        IN  /\ pm_discovered' = Update(pm_discovered, found)
            /\ pm_last' = Call("get_plugin_info", plugin_name, None, did,
                               found, {},
                               IF plugin_name \in DOMAIN pm_discovered'
                               THEN "info" ELSE "None",
                               FALSE)
    /\ UNCHANGED <<pm_eps, pm_builtins, pm_loaded, pm_cache, pm_failed>>
    /\ UNCHANGED exceptPlug

\* list_plugins: the names in the tables shown
ListPlugins ==
    /\ \E plugin_type \in {None}, show_errors \in BOOLEAN :
        LET plugins == discover_plugins(plugin_type)
        IN  /\ pm_discovered' = Update(pm_discovered, plugins)
            /\ pm_last' = Call("list_plugins", "", plugin_type, TRUE,
                               plugins,
                               {n \in DOMAIN plugins :
                                    show_errors \/ ~HasError(plugins[n])},
                               "None", FALSE)
    /\ UNCHANGED <<pm_eps, pm_builtins, pm_loaded, pm_cache, pm_failed>>
    /\ UNCHANGED exceptPlug

\* providers.get_provider_class: the built-in table, the cache, load_plugin
GetProviderClass ==
    /\ \E provider_name \in RequestNames :
        IF provider_name \in builtin_providers \cup pm_cache
        THEN /\ pm_last' = Call("get_provider_class", provider_name, None,
                                FALSE, EmptyDict, {}, "class", FALSE)
             /\ UNCHANGED <<pm_discovered, pm_loaded, pm_failed, pm_cache>>
        ELSE LET r == load_plugin(provider_name)
             IN  /\ pm_discovered' = r.discovered
                 /\ pm_loaded' = r.loaded
                 /\ pm_failed' = r.failed
                 /\ pm_cache' = IF r.value = "class"
                                THEN pm_cache \cup {provider_name}
                                ELSE pm_cache
                 /\ pm_last' = Call("get_provider_class", provider_name,
                                    None, r.did, r.found, {}, r.value,
                                    r.imported)
    /\ UNCHANGED <<pm_eps, pm_builtins>>
    /\ UNCHANGED exceptPlug

NoCall == Call("", "", None, FALSE, EmptyDict, {}, "None", FALSE)

PlugIdle ==
    /\ pm_eps = EmptyDict /\ pm_builtins = FALSE
    /\ pm_discovered = EmptyDict /\ pm_loaded = {} /\ pm_cache = {}
    /\ pm_last = NoCall /\ pm_failed = {}

\* PluginManager(): nothing discovered, nothing loaded; any set of entry
\* points installed
PlugInit ==
    /\ pm_eps \in Installed
    /\ pm_builtins \in BOOLEAN
    /\ pm_discovered = EmptyDict /\ pm_loaded = {} /\ pm_cache = {}
    /\ pm_last = NoCall /\ pm_failed = {}

---------------------------------------------------------------------------
(* CapitalComProvider.__call__ and create_session *)

\* top-level API calls followed
MaxApiCalls == 2

\* a token header of a response that sets it
Token == Some("token")

\* the endpoints a caller requests (get_historical_prices, get_market_details)
Endpoints == {"prices", "markets"}

\* the headers of a response that carry a token
TokenHeaders == {"X-SECURITY-TOKEN", "CST"}

\* a call of __call__ in progress
Frame(endpoint, level) == [endpoint |-> endpoint, level |-> level]

\* a request as sent, and how it was answered
Request(frame, security, cst, status, is_json) ==
    [endpoint |-> frame.endpoint, level |-> frame.level,
     security |-> security # None, cst |-> cst # None, status |-> status,
     json |-> is_json]

\* response.status_code == 401 and _level == 0
Reauthenticates(status, level) == status = "401" /\ level = 0

\* _level == 0 and self.security_token is None and endpoint != 'session'
NeedsSession(level, security, endpoint) ==
    level = 0 /\ security = None /\ endpoint # "session"

\* the keys create_session requires, and the other key of the section
RequiredKeys == {"user_email", "api_key", "api_password"}
ConfigKeys == RequiredKeys \cup {"demo"}

\* providers.toml as the constructor finds it: no file, no [capitalcom]
\* section, or the section with the keys it sets
NoFile == <<"no file">>
NoSection == <<"no section">>
Section(keys) == <<"section", keys>>
ProvidersToml ==
    {NoFile, NoSection} \cup {Section(K) : K \in SUBSET ConfigKeys}

\* Provider.load_config: self.config stays the class default {} unless the
\* section is there; the keys of self.config
load_config(file) == IF file[1] = "section" THEN file[2] ELSE {}

\* a check of the section alone, not of its keys
SessionConfigured_nonempty(config) == config # {}

\* create_session goes on to the session request
SessionConfigured(config) == config # {} /\ RequiredKeys \subseteq config

\* CapitalComProvider(...): load_config, no tokens; nothing is checked
CapConstruct ==
    /\ cc_pc = "new"
    /\ \E file \in ProvidersToml : cc_config' = load_config(file)
    /\ cc_pc' = "idle"
    /\ cc_security_token' = None /\ cc_cst_token' = None
    /\ UNCHANGED <<cc_stack, cc_log, cc_calls>>
    /\ UNCHANGED exceptApi

\* a caller calls the provider: create_session first when there is no
\* security token, which raises when the configuration is incomplete
ApiCall ==
    /\ cc_pc \in {"idle", "returned", "raised"}
    /\ cc_calls < MaxApiCalls
    /\ cc_calls' = cc_calls + 1
    /\ cc_log' = <<>>
    /\ \E endpoint \in Endpoints :
        IF NeedsSession(0, cc_security_token, endpoint)
        THEN IF SessionConfigured(cc_config)
             THEN /\ cc_stack' = <<Frame(endpoint, 0), Frame("session", 0)>>
                  /\ cc_pc' = "request"
             ELSE /\ cc_stack' = <<>>
                  /\ cc_pc' = "raised"
        ELSE /\ cc_stack' = <<Frame(endpoint, 0)>>
             /\ cc_pc' = "request"
    /\ UNCHANGED <<cc_security_token, cc_cst_token, cc_config>>
    /\ UNCHANGED exceptApi

\* the request of the innermost call is sent and answered
ApiRespond ==
    /\ cc_pc = "request"
    /\ \E status \in {"200", "401", "500"}, hdr \in SUBSET TokenHeaders,
          is_json \in BOOLEAN :
        LET frame == Last(cc_stack)
            security == IF "X-SECURITY-TOKEN" \in hdr THEN Token
                        ELSE cc_security_token
            cst == IF "CST" \in hdr THEN Token ELSE cc_cst_token
        IN  /\ cc_log' = Append(cc_log,
                    Request(frame, cc_security_token, cc_cst_token, status,
                            is_json))
            /\ IF ~is_json
               THEN \* response.json() raises: CapitalComError
                    /\ cc_pc' = "raised" /\ cc_stack' = <<>>
                    /\ cc_security_token' = security /\ cc_cst_token' = cst
               ELSE IF status = "200"
               THEN \* return response.json(), into create_session or to
                    \* the caller
                    /\ cc_stack' = Front(cc_stack)
                    /\ cc_pc' = IF Len(cc_stack) = 1 THEN "returned"
                                ELSE "request"
                    /\ cc_security_token' = security /\ cc_cst_token' = cst
               ELSE IF Reauthenticates(status, frame.level)
               THEN \* the tokens are dropped and the call made again with
                    \* _level=1
                    /\ cc_security_token' = None /\ cc_cst_token' = None
                    /\ cc_stack' = Append(Front(cc_stack),
                                          Frame(frame.endpoint, 1))
                    /\ cc_pc' = "request"
               ELSE \* raise CapitalComError("API Error: ...")
                    /\ cc_pc' = "raised" /\ cc_stack' = <<>>
                    /\ cc_security_token' = security /\ cc_cst_token' = cst
    /\ UNCHANGED <<cc_calls, cc_config>>
    /\ UNCHANGED exceptApi

\* httpx.RequestError: CapitalComError("Request Error: ...")
ApiRequestError ==
    /\ cc_pc = "request"
    /\ cc_log' = Append(cc_log, Request(Last(cc_stack), cc_security_token,
                                        cc_cst_token, "RequestError",
                                        FALSE))
    /\ cc_pc' = "raised"
    /\ cc_stack' = <<>>
    /\ UNCHANGED <<cc_security_token, cc_cst_token, cc_calls, cc_config>>
    /\ UNCHANGED exceptApi

ApiIdle ==
    /\ cc_pc = "off" /\ cc_stack = <<>> /\ cc_log = <<>> /\ cc_calls = 0
    /\ cc_security_token = None /\ cc_cst_token = None /\ cc_config = {}

\* the constructor is about to run
ApiInit ==
    /\ cc_pc = "new" /\ cc_stack = <<>> /\ cc_log = <<>> /\ cc_calls = 0
    /\ cc_security_token = None /\ cc_cst_token = None
    /\ cc_config = {}

---------------------------------------------------------------------------
(* CCXTProvider.__init__: the configuration handed to the CCXT client *)

\* xchg.lower() of the symbol the provider is made for
exchange_name == "binance"

\* f'ccxt.{exchange_name}'
exchange_section == "ccxt.binance"

\* options a table of providers.toml may set
OptionKeys == {"apiKey", "secret", "enableRateLimit"}

\* a table whose options all carry the value v
Options(keys, v) == [k \in keys |-> v]

\* providers.toml as written: the [ccxt] table if there is one, the
\* exchange's table if there is one, and whether its header is the dotted
\* [ccxt.binance] or the quoted ["ccxt.binance"]
TomlFiles ==
    [shared : {None} \cup {Some(Options(K, "shared")) : K \in SUBSET OptionKeys},
     exchange : {None} \cup {Some(Options(K, "exchange")) :
                                 K \in SUBSET OptionKeys},
     quoted : BOOLEAN]

\* no config_dir or no providers.toml in it, or the file
ConfigFiles == {None} \cup {Some(f) : f \in TomlFiles}

\* tomllib.load: a dotted header makes a table inside the ccxt table, a
\* quoted header makes a top-level table named "ccxt.binance"
tomllib_load(file) ==
    LET dotted == file.exchange # None /\ ~file.quoted
        nested == IF dotted THEN (exchange_name :> file.exchange[1])
                            ELSE EmptyDict
        ccxt == IF file.shared # None THEN Update(file.shared[1], nested)
                                      ELSE nested
        top == IF file.shared # None \/ dotted THEN ("ccxt" :> ccxt)
                                               ELSE EmptyDict
        own == IF file.exchange # None /\ file.quoted
                   THEN (exchange_section :> file.exchange[1])
                   ELSE EmptyDict
    IN  Update(top, own)

\* the section the constructor picks
exchange_config(config_file) ==
    IF config_file = None THEN EmptyDict
    ELSE LET data == tomllib_load(config_file[1])
         IN  IF exchange_section \in DOMAIN data THEN data[exchange_section]
             ELSE IF "ccxt" \in DOMAIN data THEN data["ccxt"]
             ELSE EmptyDict

\* {'enableRateLimit': True, 'adjustForTimeDifference': True,
\*  **exchange_config}
client_config(config) ==
    Update(("enableRateLimit" :> "True") @@
           ("adjustForTimeDifference" :> "True"), config)

CcxtConstruct ==
    /\ cx_pc = "new"
    /\ cx_client' = client_config(exchange_config(cx_file))
    /\ cx_pc' = "ready"
    /\ UNCHANGED cx_file
    /\ UNCHANGED exceptCtor

CtorIdle == cx_pc = "off" /\ cx_file = None /\ cx_client = EmptyDict

CtorInit == cx_pc = "new" /\ cx_file \in ConfigFiles /\ cx_client = EmptyDict

---------------------------------------------------------------------------
(* update_symbol_info: the price scale *)

\* a Python float is an IEEE 754 binary64 number: Precision bits of
\* significand
Precision == 53

\* the tick sizes followed have up to MaxDecimals decimal places
MaxDecimals == 14

\* numbers of any size are written in limbs of LimbBits bits, lowest first
LimbBits == 24

Base == 2 ^ LimbBits

\* a * f + carry for a small factor f, exact
RECURSIVE MulSmall(_, _, _)
MulSmall(a, f, carry) ==
    IF a = <<>>
    THEN IF carry = 0 THEN <<>> ELSE <<carry>>
    ELSE LET p == Head(a) * f + carry
         IN  <<p % Base>> \o MulSmall(Tail(a), f, p \div Base)

\* the number of bits of a
BitLength(a) ==
    (Len(a) - 1) * LimbBits
        + (CHOOSE n \in 1..LimbBits : 2 ^ (n - 1) <= Last(a) /\ Last(a) < 2 ^ n)

\* bit i of a, the lowest being bit 0
Bit(a, i) ==
    IF i \div LimbBits >= Len(a) THEN 0
    ELSE (a[i \div LimbBits + 1] \div 2 ^ (i % LimbBits)) % 2

\* the bits i .. i + width - 1 of a, as a number
RECURSIVE Window(_, _, _)
Window(a, i, width) ==
    IF width = 0 THEN 0 ELSE Bit(a, i) + 2 * Window(a, i + 1, width - 1)

\* a \div 2^d, for a quotient of Precision bits
ShiftRight(a, d) ==
    <<Window(a, d, LimbBits), Window(a, d + LimbBits, LimbBits),
      Window(a, d + 2 * LimbBits, Precision - 2 * LimbBits)>>

\* the float m * 2^e, its significand m of Precision bits
Double(m, e) == [m |-> m, e |-> e]

\* the float nearest to a * 2^exp, ties to the even significand
RoundToDouble(a, exp) ==
    LET d == BitLength(a) - Precision
    IN  IF d = 0 THEN Double(a, exp)
        ELSE LET kept == ShiftRight(a, d)
                 half == Bit(a, d - 1) = 1
                 more == \E i \in 0..(d - 2) : Bit(a, i) = 1
                 up == half /\ (more \/ kept[1] % 2 = 1)
                 r == IF up THEN MulSmall(kept, 1, 1) ELSE kept
             IN  IF BitLength(r) > Precision
                 THEN Double(ShiftRight(r, 1), exp + d + 1)
                 ELSE Double(r, exp + d)

\* x * 10 ** k in float arithmetic (10 ** k is a float without rounding for
\* the k followed here, so the product is rounded once)
RECURSIVE TimesPowerOfTen(_, _)
TimesPowerOfTen(a, k) ==
    IF k = 0 THEN a ELSE TimesPowerOfTen(MulSmall(a, 10, 0), k - 1)

Times(x, k) == RoundToDouble(TimesPowerOfTen(x.m, k), x.e)

\* "minmove < 1.0"
LessThanOne(x) == x.e + Precision <= 0

\* float("1e-k"), float("5e-k"), float("25e-k") for k = 0, 1, ...: the
\* significand in two parts, high * 2^27 + low, and the exponent
Float1 ==
    <<
       <<33554432, 0, -52>>,
       <<53687091, 26843546, -56>>,
       <<42949672, 128849019, -59>>,
       <<34359738, 49392124, -62>>,
       <<54975581, 52183853, -66>>,
       <<43980465, 14903537, -69>>,
       <<35184372, 11922829, -72>>,
       <<56294995, 45920072, -76>>,
       <<45035996, 36736058, -79>>,
       <<36028797, 2545301, -82>>,
       <<57646075, 30916027, -86>>,
       <<46116860, 24732821, -89>>,
       <<36893488, 19786257, -92>>,
       <<59029581, 4814466, -96>>,
       <<47223664, 111225755, -99>>,
       <<37778931, 115824150, -102>>,
       <<60446290, 131631548, -106>>,
       <<48357032, 105305239, -109>>
    >>
Float5 ==
    <<
       <<41943040, 0, -50>>,
       <<33554432, 0, -53>>,
       <<53687091, 26843546, -57>>,
       <<42949672, 128849019, -60>>,
       <<34359738, 49392124, -63>>,
       <<54975581, 52183853, -67>>,
       <<43980465, 14903537, -70>>,
       <<35184372, 11922829, -73>>,
       <<56294995, 45920072, -77>>,
       <<45035996, 36736058, -80>>,
       <<36028797, 2545301, -83>>,
       <<57646075, 30916027, -87>>,
       <<46116860, 24732821, -90>>,
       <<36893488, 19786257, -93>>,
       <<59029581, 4814466, -97>>,
       <<47223664, 111225755, -100>>,
       <<37778931, 115824150, -103>>,
       <<60446290, 131631548, -107>>
    >>
Float25 ==
    <<
       <<52428800, 0, -48>>,
       <<41943040, 0, -51>>,
       <<33554432, 0, -54>>,
       <<53687091, 26843546, -58>>,
       <<42949672, 128849019, -61>>,
       <<34359738, 49392124, -64>>,
       <<54975581, 52183853, -68>>,
       <<43980465, 14903537, -71>>,
       <<35184372, 11922829, -74>>,
       <<56294995, 45920072, -78>>,
       <<45035996, 36736058, -81>>,
       <<36028797, 2545301, -84>>,
       <<57646075, 30916027, -88>>,
       <<46116860, 24732821, -91>>,
       <<36893488, 19786257, -94>>,
       <<59029581, 4814466, -98>>,
       <<47223664, 111225755, -101>>,
       <<37778931, 115824150, -104>>
    >>

Float(digits, k) ==
    LET row == IF digits = 1 THEN Float1[k + 1]
               ELSE IF digits = 5 THEN Float5[k + 1]
               ELSE Float25[k + 1]
    IN  Double(<<row[2] % Base,
                 row[2] \div Base + (row[1] % 2 ^ 21) * 2 ^ 3,
                 row[1] \div 2 ^ 21>>, row[3])

\* the tick sizes a market may report
Ticks == {Float(d, k) : d \in {1, 5, 25}, k \in 0..MaxDecimals}

\* CCXT: market_details['precision']['price'];
\* Capital.com: float(market_details.get('minNormalStopOrLimitDistance',
\* 0.01))
mintick(provider_name, detail) ==
    IF provider_name = "capitalcom" /\ detail = None THEN Float(1, 2)
    ELSE detail[1]

\* pricescale = 1, then "while minmove < 1.0: pricescale *= 10;
\* minmove *= 10".  pricescale is a Python int of any size, a power of ten:
\* tens counts its zeros.
RECURSIVE PriceScale(_, _)
PriceScale(minmove, tens) ==
    IF LessThanOne(minmove) THEN PriceScale(Times(minmove, 1), tens + 1)
    ELSE [pricescale |-> tens, minmove |-> minmove]

CcxtUpdateSymbolInfo ==
    /\ ps_pc = "new"
    /\ ps_provider = "ccxt"
    /\ LET scaled == PriceScale(mintick(ps_provider, ps_mintick), 0)
       IN  /\ ps_pricescale' = scaled.pricescale
           /\ ps_minmove' = Some(scaled.minmove)
    /\ ps_pc' = "done"
    /\ UNCHANGED <<ps_provider, ps_mintick>>
    /\ UNCHANGED exceptScale

CapUpdateSymbolInfo ==
    /\ ps_pc = "new"
    /\ ps_provider = "capitalcom"
    /\ LET scaled == PriceScale(mintick(ps_provider, ps_mintick), 0)
       IN  /\ ps_pricescale' = scaled.pricescale
           /\ ps_minmove' = Some(scaled.minmove)
    /\ ps_pc' = "done"
    /\ UNCHANGED <<ps_provider, ps_mintick>>
    /\ UNCHANGED exceptScale

\* The loop step by step, for tick sizes of either sign and zero.
\* a float with its sign: -1, 0 or 1.  Of a negative float only the sign is
\* kept: ten times a negative float is a negative float (or -inf).
Signed(sign, x) == [sign |-> sign, abs |-> x]
Zero == Signed(0, Double(<<0, 0, 0>>, 0))
Negative == Signed(-1, Double(<<0, 0, 0>>, 0))
SignedTicks == {Signed(1, x) : x \in Ticks} \cup {Zero, Negative}
\* "minmove < 1.0"
SignedLessThanOne(v) == v.sign <= 0 \/ LessThanOne(v.abs)
\* the zeros of pricescale are counted up to MaxScale, more than any
\* positive tick followed needs; a pricescale with more zeros is kept as
\* one with MaxScale zeros
MaxScale == MaxDecimals + 2
TimesTenInt(tens) == IF tens < MaxScale THEN tens + 1 ELSE MaxScale
\* the floats the loop can reach from a tick, and each one's product by
\* ten, worked out once
RECURSIVE Multiples(_, _)
Multiples(x, n) ==
    IF n = 0 THEN {x} ELSE {x} \cup Multiples(Times(x, 1), n - 1)
TimesTen ==
    [x \in UNION {Multiples(t, MaxScale) : t \in Ticks} |-> Times(x, 1)]
\* "minmove *= 10": the sign stays, zero stays zero
SignedTimesTen(v) ==
    IF v.sign <= 0 THEN v ELSE Signed(v.sign, TimesTen[v.abs])

\* "while minmove < 1.0": the condition is evaluated; when it is false the
\* loop is left and SymInfo is built
ScaleLoopTest ==
    /\ ps_pc = "while"
    /\ ps_pc' = IF SignedLessThanOne(ps_minmove[1]) THEN "body" ELSE "done"
    /\ UNCHANGED <<ps_provider, ps_mintick, ps_pricescale, ps_minmove>>
    /\ UNCHANGED exceptScale

\* the body of the loop: "pricescale *= 10; minmove *= 10"
ScaleLoopBody ==
    /\ ps_pc = "body"
    /\ ps_pricescale' = TimesTenInt(ps_pricescale)
    /\ ps_minmove' = Some(SignedTimesTen(ps_minmove[1]))
    /\ ps_pc' = "while"
    /\ UNCHANGED <<ps_provider, ps_mintick>>
    /\ UNCHANGED exceptScale

\* update_symbol_info has read the tick size: minmove = mintick and
\* pricescale = 1
ScaleLoopInit ==
    /\ ps_pc = "while"
    /\ ps_provider \in {"ccxt", "capitalcom"}
    /\ ps_mintick \in {Some(x) : x \in SignedTicks}
    /\ ps_minmove = ps_mintick
    /\ ps_pricescale = 0

ScaleIdle ==
    /\ ps_pc = "off" /\ ps_provider = "ccxt" /\ ps_mintick = None
    /\ ps_pricescale = 0 /\ ps_minmove = None

\* the market details have been fetched
ScaleInit ==
    /\ ps_pc = "new"
    /\ ps_provider \in {"ccxt", "capitalcom"}
    /\ ps_mintick \in {Some(x) : x \in Ticks}
                        \cup (IF ps_provider = "capitalcom" THEN {None}
                                                            ELSE {})
    /\ ps_pricescale = 0 /\ ps_minmove = None

---------------------------------------------------------------------------
(* The bar-file writer of a provider *)

\* bars one download appends, at most
MaxWrites == 4
\* the bars a download may append
WriterBars == 1..2

\* OHLCVWriter (pynecore.core.ohlcv_file) as the specification describes
\* it: a file handle that is opened, written and closed.  What a write to a
\* writer that is not open does is not described: it may append the bar or
\* raise.
OHLCVWriter_write(state) ==
    IF state = "open" THEN {"written"} ELSE {"written", "raised"}

\* Provider.__init__: the writer is made, closed, when ohlcv_dir, symbol
\* and timeframe are all given
ohlcv_file(given) == IF given THEN "closed" ELSE "none"

\* `with provider:`: Provider.__enter__ opens the writer, or raises
\* ValueError when there is none
ProviderEnter ==
    /\ wr_use = "with" /\ wr_pc = "new"
    /\ IF wr_file = "none"
       THEN /\ wr_pc' = "raised"
            /\ UNCHANGED <<wr_file, wr_log>>
       ELSE /\ wr_file' = "open"
            /\ wr_log' = Append(wr_log, <<"open">>)
            /\ wr_pc' = "download"
    /\ UNCHANGED wr_use
    /\ UNCHANGED exceptWriter

\* the download command up to its call of download_ohlcv: the provider is
\* constructed, get_ohlcv_path() is called without its arguments, and
\* nothing opens the writer
CommandRun ==
    /\ wr_use = "command" /\ wr_pc = "new"
    /\ wr_pc' = IF CallAccepted(0, get_ohlcv_path_required)
                THEN "download" ELSE "crashed"
    /\ UNCHANGED <<wr_use, wr_file, wr_log>>
    /\ UNCHANGED exceptWriter

\* download_ohlcv appends one bar: save_ohlcv_data raises ValueError when
\* there is no writer and writes otherwise, whatever the writer's state
SaveOhlcvData ==
    /\ wr_pc = "download"
    /\ Len(SelectSeq(wr_log, LAMBDA e : e[1] = "write")) < MaxWrites
    /\ IF wr_file = "none"
       THEN /\ wr_pc' = "failed"
            /\ UNCHANGED wr_log
       ELSE \E bar \in WriterBars : \E outcome \in OHLCVWriter_write(wr_file) :
              /\ wr_log' = Append(wr_log, <<"write", bar, wr_file, outcome>>)
              /\ wr_pc' = IF outcome = "raised" THEN "failed" ELSE "download"
    /\ UNCHANGED <<wr_use, wr_file>>
    /\ UNCHANGED exceptWriter

\* download_ohlcv returns: its loop is over, or it never ran
DownloadReturns ==
    /\ wr_pc = "download"
    /\ wr_pc' = "returned"
    /\ UNCHANGED <<wr_use, wr_file, wr_log>>
    /\ UNCHANGED exceptWriter

\* download_ohlcv raises: a fetch or the callback has failed
DownloadRaises ==
    /\ wr_pc = "download"
    /\ wr_pc' = "failed"
    /\ UNCHANGED <<wr_use, wr_file, wr_log>>
    /\ UNCHANGED exceptWriter

\* the end of the `with` block: Provider.__exit__ closes the writer when
\* there is one, and lets the error of the block through
ProviderExit ==
    /\ wr_use = "with" /\ wr_pc \in {"returned", "failed"}
    /\ IF wr_file = "none"
       THEN UNCHANGED <<wr_file, wr_log>>
       ELSE /\ wr_file' = "closed"
            /\ wr_log' = Append(wr_log, <<"close">>)
    /\ wr_pc' = IF wr_pc = "returned" THEN "done" ELSE "propagated"
    /\ UNCHANGED wr_use
    /\ UNCHANGED exceptWriter

WriterIdle ==
    wr_use = "with" /\ wr_file = "none" /\ wr_pc = "off" /\ wr_log = <<>>

\* a provider has been constructed, by the command (which always gives
\* ohlcv_dir, symbol and timeframe) or by a caller that uses it in a `with`
WriterInit ==
    /\ wr_use \in {"with", "command"}
    /\ wr_file \in {ohlcv_file(given) :
                      given \in IF wr_use = "command" THEN {TRUE}
                                                      ELSE BOOLEAN}
    /\ wr_pc = "new"
    /\ wr_log = <<>>

---------------------------------------------------------------------------
(* get_ohlcv_path *)

\* longest symbol given to get_ohlcv_path
MaxSymbolLen == 2
\* the characters of a symbol
SymbolChars == {"A", "/", ":", "_"}
PathSymbols ==
    UNION {[1..n -> SymbolChars] : n \in 1..MaxSymbolLen}
PathTimeframes == {<<"6", "0">>, <<"1", "D">>}
\* cls.__name__.lower().replace('provider', '')
ProviderNames == {<<"c", "c", "x", "t">>,
                  <<"c", "a", "p", "i", "t", "a", "l", "c", "o", "m">>}
PathArguments == ProviderNames \X PathSymbols \X PathTimeframes

\* str.replace of one character by another
Replace(s, old, new) ==
    [i \in DOMAIN s |-> IF s[i] = old THEN new ELSE s[i]]

\* the file name under ohlcv_dir (the directory is the same for all)
get_ohlcv_path(provider_name, symbol, timeframe_) ==
    provider_name \o <<"_">>
        \o Replace(Replace(symbol, "/", "_"), ":", "_")
        \o <<"_">> \o timeframe_ \o <<".", "o", "h", "l", "c", "v">>

\* Path.with_suffix('.toml') of a bar-file path: what follows the last dot
\* is replaced
LastDot(path) ==
    CHOOSE i \in DOMAIN path :
        path[i] = "." /\ \A j \in (i + 1)..Len(path) : path[j] # "."
with_suffix_toml(path) ==
    SubSeq(path, 1, LastDot(path) - 1) \o <<".", "t", "o", "m", "l">>

\* two providers are constructed: each works out its path
GetOhlcvPath ==
    /\ gp_pc = "new"
    /\ gp_paths' = <<get_ohlcv_path(gp_first[1], gp_first[2], gp_first[3]),
                     get_ohlcv_path(gp_second[1], gp_second[2],
                                    gp_second[3])>>
    /\ gp_pc' = "done"
    /\ UNCHANGED <<gp_first, gp_second>>
    /\ UNCHANGED exceptPath

PathIdle ==
    gp_pc = "off" /\ gp_first = <<>> /\ gp_second = <<>> /\ gp_paths = <<>>

PathInit ==
    /\ gp_pc = "new"
    /\ gp_first \in PathArguments
    /\ gp_second \in PathArguments
    /\ gp_paths = <<>>

---------------------------------------------------------------------------
(* The template provider's download_ohlcv *)

\* longest window given to the template provider, in days
MaxWindowDays == 1
\* the instants (seconds) a window starts or ends at
TplInstants ==
    {0, 90, 1800, 3600, 21600} \cup {d * CapDay : d \in 1..MaxWindowDays}

\* the table of the placeholder implementation
timeframe_minutes ==
    [t \in {"1m", "5m", "15m", "30m", "1h", "4h", "1d"} |->
        CASE t = "1m" -> 1 [] t = "5m" -> 5 [] t = "15m" -> 15
          [] t = "30m" -> 30 [] t = "1h" -> 60 [] t = "4h" -> 240
          [] t = "1d" -> 1440]
\* timeframe_minutes.get(self.timeframe or "1h", 60)
minutes(timeframe_) ==
    IF timeframe_ \in DOMAIN timeframe_minutes
    THEN timeframe_minutes[timeframe_] ELSE 60
\* int(x / 60) of a whole number of seconds: the fraction is dropped,
\* towards zero
total_minutes(from, to) ==
    IF to >= from THEN (to - from) \div 60 ELSE -((from - to) \div 60)
periods(timeframe_, from, to) ==
    total_minutes(from, to) \div minutes(timeframe_)

\* the timestamps list: one instant per period from time_from on, left
\* early once the next instant would be past time_to
TplCount(timeframe_, from, to) ==
    LET delta == 60 * minutes(timeframe_)
        past == {n \in 1..periods(timeframe_, from, to) :
                    from + n * delta > to}
    IN  IF past = {} THEN periods(timeframe_, from, to)
        ELSE CHOOSE n \in past : \A m \in past : n <= m
TplTimestamps(timeframe_, from, to) ==
    [i \in 1..TplCount(timeframe_, from, to) |->
        from + (i - 1) * 60 * minutes(timeframe_)]
\* OHLCV(timestamp=int(ts.timestamp() * 1000), ...)
TplBarTimestamp(ts) == ts * 1000

TplDownloadOhlcv ==
    /\ tp_pc = "new"
    /\ IF periods(tp_timeframe, tp_from, tp_to) <= 0
       THEN tp_stored' = <<>>
       ELSE LET timestamps == TplTimestamps(tp_timeframe, tp_from, tp_to)
            IN  tp_stored' = [i \in DOMAIN timestamps |->
                                 TplBarTimestamp(timestamps[i])]
    /\ tp_error' = NoException
    /\ tp_pc' = "returned"
    /\ UNCHANGED <<tp_timeframe, tp_from, tp_to>>
    /\ UNCHANGED exceptTpl

TplIdle ==
    /\ tp_pc = "off" /\ tp_timeframe = "1h" /\ tp_from = 0 /\ tp_to = 0
    /\ tp_stored = <<>> /\ tp_error = NoException

\* a provider made from the template, with a writer, in a `with` block
TplInit ==
    /\ tp_pc = "new"
    /\ tp_timeframe \in DOMAIN timeframe_minutes
    /\ tp_from \in TplInstants
    /\ tp_to \in TplInstants
    /\ tp_stored = <<>>
    /\ tp_error = NoException

ExtIdle ==
    /\ InfoIdle /\ PlugIdle /\ ApiIdle /\ CtorIdle /\ ScaleIdle
    /\ WriterIdle
    /\ PathIdle
    /\ TplIdle

---------------------------------------------------------------------------
(* Specifications *)

\* a daily and a weekly timeframe
CcxtTimeframes == {<<"1", "D">>, <<"1", "W">>}
CapTimeframes == {<<"1">>, <<"6", "0">>, <<"1", "D">>}

DlIdle ==
    /\ provider = "none" /\ timeframe = <<>> /\ xchg_timeframe = <<>>
    /\ time_from = 0 /\ time_to = 0 /\ tf = 0 /\ all_data = <<>>
    /\ events = <<>> /\ stored = <<>> /\ pc = "off" /\ fetches = 0
    /\ error = "none" /\ raised = NoException

CliIdle ==
    /\ on_progress = "any"
    /\ run = 0 /\ first_stored = <<>> /\ caller_from = 0
    /\ caller_from_aware = FALSE /\ from_aware = FALSE /\ to_aware = FALSE
    /\ truncate = FALSE

\* download_ohlcv(time_from, time_to, on_progress) has been called on a
\* provider constructed with a symbol and a timeframe; the file is empty
DlInit ==
    /\ provider \in {"ccxt", "capitalcom"}
    /\ timeframe \in (IF provider = "ccxt" THEN CcxtTimeframes
                      ELSE CapTimeframes)
    /\ xchg_timeframe = to_exchange_timeframe(provider, timeframe)
    /\ time_from \in (IF provider = "ccxt" THEN {0, Day}
                      ELSE CapInstants(xchg_timeframe))
    /\ time_to \in (IF provider = "ccxt" THEN CcxtEnds
                    ELSE CapInstants(xchg_timeframe))
    /\ tf = time_from
    /\ all_data = <<>> /\ events = <<>> /\ stored = <<>>
    /\ pc = "loop" /\ fetches = 0 /\ error = "none" /\ raised = NoException
    /\ on_progress = "any"
    /\ run = 0 /\ first_stored = <<>> /\ caller_from = time_from
    /\ caller_from_aware = FALSE /\ from_aware = FALSE /\ to_aware = FALSE
    /\ truncate = FALSE

Init == DlInit /\ TfIdle /\ ExtIdle

Next ==
    \/ CcxtFetch
    \/ CcxtFetchRaises
    \/ CcxtFetchStops
    \/ CcxtProgressStops
    \/ CcxtProgressRaises
    \/ CcxtFinish
    \/ CapFetch
    \/ CapFetchRaises
    \/ CapProgressRaises
    \/ CapFinish

Spec == Init /\ [][Next]_vars

\* the download command before its first run; --from and --to are each a
\* number of days (aware) or a date (naive)
CliInit ==
    /\ provider = "ccxt"
    /\ timeframe \in CcxtTimeframes
    /\ xchg_timeframe = to_exchange_timeframe(provider, timeframe)
    /\ caller_from \in CcxtInstants
    /\ caller_from_aware \in BOOLEAN
    /\ time_to \in CcxtEnds
    /\ to_aware \in BOOLEAN
    /\ time_from = caller_from
    /\ from_aware = caller_from_aware
    /\ tf = caller_from
    /\ all_data = <<>> /\ events = <<>> /\ stored \in CliFiles
    /\ pc = "idle" /\ fetches = 0 /\ error = "none" /\ raised = NoException
    /\ on_progress = "cb_progress"
    /\ run = 0 /\ first_stored = <<>> /\ truncate = FALSE

InitCli == CliInit /\ TfIdle /\ ExtIdle

\* no run of the command reaches download_ohlcv
NextCli == CliDownload

SpecCli == InitCli /\ [][NextCli]_vars

InitTf == TfInit /\ DlIdle /\ CliIdle /\ ExtIdle

NextTf ==
    \/ TfConvert
    \/ TfConvertBack
    \/ TfConvertAgain

SpecTf == InitTf /\ [][NextTf]_vars

InitInfo ==
    /\ InfoInit /\ TfIdle /\ DlIdle /\ CliIdle /\ PlugIdle /\ ApiIdle
    /\ CtorIdle /\ ScaleIdle
    /\ WriterIdle
    /\ PathIdle
    /\ TplIdle

NextInfo ==
    \/ GetSymbolInfoNoPath
    \/ GetSymbolInfoCached
    \/ GetSymbolInfoUpdate
    \/ GetSymbolInfoUpdateRaises
    \/ SourceChanges

SpecInfo == InitInfo /\ [][NextInfo]_vars

InitPlug ==
    /\ PlugInit /\ TfIdle /\ DlIdle /\ CliIdle /\ InfoIdle /\ ApiIdle
    /\ CtorIdle /\ ScaleIdle
    /\ WriterIdle
    /\ PathIdle
    /\ TplIdle

NextPlug ==
    \/ DiscoverPlugins
    \/ LoadPlugin
    \/ GetAvailableProviders
    \/ GetPluginInfo
    \/ ListPlugins
    \/ GetProviderClass

SpecPlug == InitPlug /\ [][NextPlug]_vars

InitApi ==
    /\ ApiInit /\ TfIdle /\ DlIdle /\ CliIdle /\ InfoIdle /\ PlugIdle
    /\ CtorIdle /\ ScaleIdle
    /\ WriterIdle
    /\ PathIdle
    /\ TplIdle

NextApi ==
    \/ CapConstruct
    \/ ApiCall
    \/ ApiRespond
    \/ ApiRequestError

SpecApi == InitApi /\ [][NextApi]_vars

InitCtor ==
    /\ CtorInit /\ TfIdle /\ DlIdle /\ CliIdle /\ InfoIdle /\ PlugIdle
    /\ ApiIdle /\ ScaleIdle
    /\ WriterIdle
    /\ PathIdle
    /\ TplIdle

NextCtor == CcxtConstruct

SpecCtor == InitCtor /\ [][NextCtor]_vars

InitScale ==
    /\ ScaleInit /\ TfIdle /\ DlIdle /\ CliIdle /\ InfoIdle /\ PlugIdle
    /\ ApiIdle /\ CtorIdle
    /\ WriterIdle
    /\ PathIdle
    /\ TplIdle

NextScale == CcxtUpdateSymbolInfo \/ CapUpdateSymbolInfo

SpecScale == InitScale /\ [][NextScale]_vars

InitWriter ==
    /\ WriterInit /\ TfIdle /\ DlIdle /\ CliIdle /\ InfoIdle /\ PlugIdle
    /\ ApiIdle /\ CtorIdle /\ ScaleIdle
    /\ PathIdle
    /\ TplIdle

NextWriter ==
    \/ ProviderEnter
    \/ CommandRun
    \/ SaveOhlcvData
    \/ DownloadReturns
    \/ DownloadRaises
    \/ ProviderExit

SpecWriter == InitWriter /\ [][NextWriter]_vars

InitPath ==
    /\ PathInit /\ TfIdle /\ DlIdle /\ CliIdle /\ InfoIdle /\ PlugIdle
    /\ ApiIdle /\ CtorIdle /\ ScaleIdle /\ WriterIdle
    /\ TplIdle

NextPath == GetOhlcvPath

SpecPath == InitPath /\ [][NextPath]_vars

InitTpl ==
    /\ TplInit /\ TfIdle /\ DlIdle /\ CliIdle /\ InfoIdle /\ PlugIdle
    /\ ApiIdle /\ CtorIdle /\ ScaleIdle /\ WriterIdle /\ PathIdle

NextTpl == TplDownloadOhlcv

SpecTpl == InitTpl /\ [][NextTpl]_vars

\* download_ohlcv has been called on a CCXT provider
LoopInit ==
    /\ provider = "ccxt"
    /\ timeframe \in CcxtTimeframes
    /\ xchg_timeframe = to_exchange_timeframe(provider, timeframe)
    /\ time_from \in LoopStarts
    /\ time_to \in LoopEnds
    /\ tf = time_from
    /\ all_data = <<>> /\ events = <<>> /\ stored = <<>>
    /\ pc = "loop" /\ fetches = 0 /\ error = "none" /\ raised = NoException
    /\ on_progress = "any"
    /\ run = 0 /\ first_stored = <<>> /\ caller_from = time_from
    /\ caller_from_aware = FALSE /\ from_aware = FALSE /\ to_aware = FALSE
    /\ truncate = FALSE

InitLoop == LoopInit /\ TfIdle /\ ExtIdle

NextLoop ==
    \/ CcxtIteration
    \/ CcxtFinish

\* the loop is sequential code: while a step is possible, one is taken
SpecLoop == InitLoop /\ [][NextLoop]_vars /\ WF_vars(NextLoop)

InitScaleLoop ==
    /\ ScaleLoopInit /\ TfIdle /\ DlIdle /\ CliIdle /\ InfoIdle /\ PlugIdle
    /\ ApiIdle /\ CtorIdle /\ WriterIdle /\ PathIdle /\ TplIdle

NextScaleLoop == ScaleLoopTest \/ ScaleLoopBody

\* the loop is sequential code: while a step is possible, one is taken
SpecScaleLoop ==
    InitScaleLoop /\ [][NextScaleLoop]_vars /\ WF_vars(NextScaleLoop)

---------------------------------------------------------------------------
(* Claims *)

\* C1: in one run of CCXTProvider.download_ohlcv the timestamps (seconds)
\* of the bars passed to save_ohlcv_data are strictly increasing, whatever
\* pages the source returns.
C1_CcxtSavedStrictlyIncreasing ==
    provider = "ccxt" => StrictlyIncreasing(Saved(events))

\* C2: in one run of CapitalComProvider.download_ohlcv the timestamps of the
\* bars passed to save_ohlcv_data are strictly increasing, across chunk
\* boundaries too.
C2_CapSavedStrictlyIncreasing ==
    provider = "capitalcom" => StrictlyIncreasing(Saved(events))

\* C3: the download command run twice in sequence for the same target and
\* window, against an unchanged source: the second run ends normally, it
\* resumed from the last stored timestamp if there was one, and the stored
\* bar sequence is as the first run left it.
C3_SecondRunChangesNothing ==
    (run = 2 /\ pc # "loop") =>
        /\ pc = "returned"
        /\ first_stored # <<>> => ToSeconds(time_from) = Last(first_stored)
        /\ stored = first_stored

\* the fetches of the call whose page held the row t
PagesWith(t) ==
    {i \in 1..Len(events) : IsFetch(events[i]) /\ t \in Range(events[i][3])}

TimesSaved(t) ==
    Cardinality({i \in 1..Len(Saved(events)) : Saved(events)[i] = t})

\* C4: a timestamp inside the window that two or more pages return is
\* appended exactly once by CCXTProvider.download_ohlcv.
C4_OverlapAppendedOnce ==
    (provider = "ccxt" /\ pc = "returned") =>
        \A t \in RowTimes :
            (time_from <= t /\ t <= time_to /\ Cardinality(PagesWith(t)) >= 2)
                => TimesSaved(t \div 1000) = 1

C6_FinalProgress ==
    pc = "returned" =>
        /\ Len(events) > 0
        /\ Last(events) = Progress(time_to)
        /\ \A i \in 1..(Len(events) - 1) :
              IsProgress(events[i]) => events[i][2] < time_to

C6_Witness ==
    /\ pc = "returned"
    /\ Len(Saved(events)) > 0
    /\ Cardinality({i \in 1..Len(events) : IsProgress(events[i])}) >= 3

\* C7: every bar CCXTProvider.download_ohlcv appends has a timestamp t with
\* time_from <= t <= time_to.
C7_SavedWithinWindow ==
    provider = "ccxt" =>
        \A i \in 1..Len(Saved(events)) :
            /\ time_from <= Saved(events)[i] * 1000
            /\ Saved(events)[i] * 1000 <= time_to

C7_Witness ==
    /\ provider = "ccxt"
    /\ pc = "returned"
    /\ Len(Saved(events)) > 0
    /\ \E i \in 1..Len(events) :
          /\ IsFetch(events[i])
          /\ \E r \in Range(events[i][3]) : r < time_from
    /\ \E i \in 1..Len(events) :
          /\ IsFetch(events[i])
          /\ \E r \in Range(events[i][3]) : r > time_to

\* C8: for every native timeframe v that CCXTProvider.to_tradingview_timeframe
\* accepts, to_exchange_timeframe(to_tradingview_timeframe(v)) = v.
C8_CcxtNativeRoundTrip ==
    (tf_provider = "ccxt" /\ tf_dir = "to_tradingview"
        /\ tf_pc \in {"back", "again"}) => tf_back = tf_in

\* C9: for every canonical c = to_tradingview_timeframe(v) of an accepted
\* native v, to_tradingview_timeframe(to_exchange_timeframe(c)) = c.
C9_CcxtCanonicalRoundTrip ==
    (tf_provider = "ccxt" /\ tf_dir = "to_tradingview") =>
        /\ tf_pc = "back" => tf_back # ValueError
        /\ tf_pc = "again" => tf_again = tf_mid

\* C10: the Capital.com table is a bijection between its eleven canonical
\* values and its eleven native names: either conversion followed by the
\* other gives the value back.
C10_CapitalTableBijection ==
    /\ Cardinality(TIMEFRAMES_keys) = 11
    /\ Cardinality(TIMEFRAMES_INV_keys) = 11
    /\ (tf_provider = "capitalcom" /\ tf_dir = "to_tradingview"
            /\ tf_in \in TIMEFRAMES_INV_keys) =>
          /\ tf_pc = "converted" => tf_mid \in TIMEFRAMES_keys
          /\ tf_pc \in {"back", "again"} => tf_back = tf_in
    /\ (tf_provider = "capitalcom" /\ tf_dir = "to_exchange"
            /\ tf_in \in TIMEFRAMES_keys) =>
          /\ tf_pc = "converted" => tf_mid \in TIMEFRAMES_INV_keys
          /\ tf_pc \in {"back", "again"} => tf_back = tf_in

C10_Witness ==
    /\ tf_provider = "capitalcom"
    /\ tf_dir = "to_exchange"
    /\ tf_in = <<"1", "2", "0">>
    /\ tf_pc = "back"
    /\ tf_back = tf_in

\* the input vocabularies named by C11
CanonicalPattern(s) ==
    \/ isdigit(s)
    \/ Len(s) >= 2 /\ isdigit(Front(s)) /\ Last(s) \in {"D", "W", "M"}

NativePattern(s) ==
    Len(s) >= 2 /\ isdigit(Front(s)) /\ Last(s) \in {"m", "h", "d", "w", "M"}

Magnitude(s) == IF isdigit(s) THEN int(s) ELSE int(Front(s))

InVocabulary(p, dir, s) ==
    IF dir = "to_exchange" THEN CanonicalPattern(s) /\ Magnitude(s) > 0
    ELSE IF p = "ccxt" THEN NativePattern(s) /\ Magnitude(s) > 0
    ELSE s \in TIMEFRAMES_INV_keys

\* C11: a conversion of either provider raises ValueError for every input
\* outside the input vocabulary of its direction, and for every input whose
\* number is <= 0.
C11_InvalidTimeframeRaises ==
    (tf_pc = "converted" /\ ~InVocabulary(tf_provider, tf_dir, tf_in))
        => tf_mid = ValueError

Returned(call) == call.result \in InfoValues

\* C12: starting with no metadata file, two successive
\* get_symbol_info(force_update=False) calls that return invoke
\* update_symbol_info once in total and return the same metadata.
C12_CachedOnFirst ==
    (/\ Len(si_log) >= 2
     /\ si_log[1].before = Absent
     /\ ~si_log[1].force_update /\ ~si_log[2].force_update
     /\ Returned(si_log[1]) /\ Returned(si_log[2])) =>
        /\ si_log[1].updates + si_log[2].updates = 1
        /\ si_log[1].result = si_log[2].result

C12_Witness ==
    /\ Len(si_log) >= 2
    /\ si_log[1].before = Absent
    /\ ~si_log[1].force_update /\ ~si_log[2].force_update
    /\ Returned(si_log[1]) /\ Returned(si_log[2])
    /\ si_source # si_log[1].result

\* C13: get_symbol_info(force_update=True) that returns has invoked
\* update_symbol_info once and the file holds what it returned, cached or
\* not; get_symbol_info(force_update=False) with a file present invokes it
\* zero times and leaves the file as it was.
C13_ForceAndCache ==
    \A i \in 1..Len(si_log) :
        LET call == si_log[i]
        IN  /\ (call.force_update /\ Returned(call)) =>
                  (call.updates = 1 /\ call.after = call.result)
            /\ (~call.force_update /\ call.before # Absent
                    /\ call.result # ValueError) =>
                  (call.updates = 0 /\ call.after = call.before
                     /\ call.result = call.before)

C13_Witness ==
    \E i, j \in 1..Len(si_log) :
        /\ si_log[i].force_update /\ si_log[i].before # Absent
        /\ Returned(si_log[i]) /\ si_log[i].result # si_log[i].before
        /\ ~si_log[j].force_update /\ si_log[j].before # Absent
        /\ Returned(si_log[j])


\* an installed plugin whose entry-point metadata raises when read
MetadataFails(n) == n \in DOMAIN pm_eps /\ pm_eps[n].meta # "ok"

\* the entry points of the groups a discovery pass covers
Covered(plugin_type) ==
    {n \in DOMAIN pm_eps : pm_eps[n].group \in groups_to_check(plugin_type)}

\* C14: in a discovery pass where the entry-point metadata of one external
\* plugin raises, every other plugin is returned with error None and the
\* loaded state it had, and the failing plugin's descriptor records a
\* non-empty error.  (A plugin whose module import raises is not imported
\* by discover_plugins at all.)
C14_DiscoveryIsolatesFailure ==
    [][(/\ pm_last'.op = "discover_plugins"
        /\ Cardinality({n \in Covered(pm_last'.plugin_type) :
                            MetadataFails(n)}) = 1)
       => \A n \in Covered(pm_last'.plugin_type) :
            /\ n \in DOMAIN pm_last'.found
            /\ IF MetadataFails(n)
               THEN HasError(pm_last'.found[n])
               ELSE /\ pm_last'.found[n].error = None
                    /\ n \in DOMAIN pm_discovered
                        => pm_discovered'[n].loaded = pm_discovered[n].loaded
      ]_vars

\* C15: once load_plugin(name) has failed, the error stays in the
\* descriptor through every later call, and no later load imports the
\* module again.
C15_LoadErrorFrozen ==
    [][\A n \in pm_failed :
        /\ HasError(pm_discovered'[n])
        /\ ~(pm_last'.name = n /\ pm_last'.imported)
      ]_vars

\* C16: load_plugin returns the class or None; None with an error recorded
\* when the import or the class lookup fails; None without an import for a
\* descriptor that holds an error; None for a name unknown after discovery.
C16_LoadNeverRaises ==
    [][pm_last'.op = "load_plugin" =>
        LET n == pm_last'.name
        IN  /\ pm_last'.value \in {"class", "None"}
            /\ (pm_last'.imported /\ Import(pm_discovered'[n]) = "raises")
                => /\ pm_last'.value = "None"
                   /\ HasError(pm_discovered'[n])
            /\ (n \in DOMAIN pm_discovered /\ HasError(pm_discovered[n]))
                => /\ pm_last'.value = "None"
                   /\ ~pm_last'.imported
                   /\ pm_discovered'[n] = pm_discovered[n]
            /\ (n \in DOMAIN pm_eps /\ n \in DOMAIN pm_discovered'
                    /\ pm_eps[n].meta = "version_raises")
                => pm_last'.value = "None" /\ ~pm_last'.imported
            /\ n \notin DOMAIN pm_discovered' => pm_last'.value = "None"
      ]_vars

\* load_plugin has failed on an import, and has refused a descriptor that
\* holds an error
C16_Witness ==
    /\ pm_last.op = "load_plugin"
    /\ pm_last.value = "None"
    /\ pm_last.name \in DOMAIN pm_discovered
    /\ HasError(pm_discovered[pm_last.name])
    /\ pm_last.name \in pm_failed
    /\ ~pm_last.imported

\* C17: get_available_providers returns the names of the provider plugins
\* with no error recorded, by discovery or by an earlier failed load.
C17_AvailableProviders ==
    pm_last.op = "get_available_providers" =>
        pm_last.names =
            {n \in DOMAIN pm_discovered :
                /\ pm_discovered[n].plugin_type = "provider"
                /\ ~HasError(pm_discovered[n])
                /\ n \notin pm_failed}

\* C18: where the built-in providers are available, each maps to a
\* descriptor with loaded = TRUE and no error, in every discovery result
\* that includes providers and in the registry once it holds them.
C18_BuiltinsAlwaysLoaded ==
    pm_builtins =>
        \A b \in builtin_providers :
            /\ b \in DOMAIN pm_discovered
                => pm_discovered[b].loaded /\ pm_discovered[b].error = None
            /\ (pm_last.discovered
                    /\ pm_last.plugin_type \in {None, Some("provider")})
                => /\ b \in DOMAIN pm_last.found
                   /\ pm_last.found[b].loaded
                   /\ pm_last.found[b].error = None

\* the requests of the current call sent after request i to its endpoint
Retries(i) ==
    {j \in (i + 1)..Len(cc_log) : cc_log[j].endpoint = cc_log[i].endpoint}

\* a top-level request that was answered 401
Rejected(i) ==
    /\ cc_log[i].endpoint # "session"
    /\ cc_log[i].level = 0
    /\ cc_log[i].status = "401"
    /\ cc_log[i].json

\* C19: after a top-level request is answered 401 the provider creates a
\* new session, then sends the same request again exactly once; a retry
\* that is rejected too ends the call with CapitalComError and no further
\* request.
C19_ReauthenticateAndRetryOnce ==
    \A i \in 1..Len(cc_log) :
        Rejected(i) =>
            /\ i < Len(cc_log) => cc_log[i + 1].endpoint = "session"
            /\ Cardinality(Retries(i)) <= 1
            /\ cc_pc # "request" => Cardinality(Retries(i)) = 1
            /\ \A j \in Retries(i) :
                    (cc_log[j].status # "200" \/ ~cc_log[j].json)
                        => cc_pc = "raised" /\ j = Len(cc_log)

\* the exception is one made by download_ohlcv around the cause
Wraps(exception, cause) == Len(exception) > 1 /\ Last(exception) = cause

\* C20: when a fetch raises, download_ohlcv of either provider ends there,
\* raising an error that wraps and reports the cause; no other fetch
\* follows and the bars appended before stay.
C20_FetchFailureAborts ==
    [][/\ (pc = "loop" /\ pc' = "raised" /\ error' = "fetch")
            => /\ stored' = stored
               /\ fetches' = fetches + 1
               /\ Wraps(raised', "fetch")
       /\ (pc = "raised" /\ error = "fetch")
            => fetches' = fetches /\ stored' = stored
      ]_vars

\* the configuration is empty or lacks one of user_email, api_key,
\* api_password
ConfigurationMissing(config) ==
    config = {} \/ \E k \in {"user_email", "api_key", "api_password"} :
                        k \notin config

\* C21: a provider constructed with its required configuration missing
\* raises the configuration error from the constructor: no provider that
\* lacks the configuration is ever ready for a call.
C21_ConstructionRaises ==
    cc_pc \in {"idle", "request", "returned", "raised"}
        => ~ConfigurationMissing(cc_config)

\* C22: with a configuration that is empty or lacks a required key, a call
\* that needs a session raises CapitalComError and sends no request.
C22_NoSessionWithoutConfig ==
    (ConfigurationMissing(cc_config) /\ cc_calls > 0)
        => cc_pc = "raised" /\ cc_log = <<>> /\ cc_stack = <<>>

\* a call has been refused for a section that lacks a required key
C22_Witness ==
    /\ cc_calls > 0
    /\ cc_config # {}
    /\ ConfigurationMissing(cc_config)
    /\ cc_pc = "raised"

\* providers.toml has the shared section and the exchange's own
C23_BothSections ==
    /\ cx_file # None
    /\ cx_file[1].shared # None
    /\ cx_file[1].exchange # None

\* C23: when providers.toml has both the shared ccxt section and the
\* exchange's own section, the client gets the shared options overridden by
\* the exchange's: an option set only in the shared section keeps the
\* shared value, an option set in the exchange's section takes that value.
C23_ExchangeOverridesShared ==
    (cx_pc = "ready" /\ C23_BothSections) =>
        LET shared == cx_file[1].shared[1]
            exchange == cx_file[1].exchange[1]
        IN  /\ \A k \in DOMAIN shared \ DOMAIN exchange :
                    k \in DOMAIN cx_client /\ cx_client[k] = "shared"
            /\ \A k \in DOMAIN exchange :
                    k \in DOMAIN cx_client /\ cx_client[k] = "exchange"

\* C24: a run of the download command that finds a bar file with a last
\* stored timestamp, without --truncate, calls download_ohlcv with that
\* timestamp as time_from; a run with --truncate removes the file and calls
\* download_ohlcv with the caller's time_from.
C24_ResumeOrTruncate ==
    (run > 0 /\ pc \in {"loop", "crashed"}) =>
        /\ (~truncate /\ stored # <<>> /\ Last(stored) # 0) =>
                pc = "loop" /\ ToSeconds(time_from) = Last(stored)
        /\ truncate =>
                pc = "loop" /\ stored = <<>> /\ time_from = caller_from

\* C25: update_symbol_info of either provider leaves pricescale = P, the
\* smallest power of ten with mintick * P >= 1 (so 1 when mintick >= 1),
\* and minmove = mintick * P, the products taken as Python takes them.
C25_SmallestPowerOfTen ==
    ps_pc = "done" =>
        LET tick == mintick(ps_provider, ps_mintick)
        IN  /\ ~LessThanOne(Times(tick, ps_pricescale))
            /\ ps_pricescale > 0
                    => LessThanOne(Times(tick, ps_pricescale - 1))
            /\ ps_minmove = Some(Times(tick, ps_pricescale))

\* what one bar of a timeframe may last, in seconds (a month has 28 to 31
\* days)
C26_BarDurations(timeframe_) ==
    LET unit == Last(timeframe_)
    IN  IF isdigit(timeframe_) THEN {int(timeframe_) * 60}
        ELSE LET n == int(Front(timeframe_))
             IN  CASE unit = "D" -> {n * 24 * 3600}
                   [] unit = "W" -> {n * 7 * 24 * 3600}
                   [] unit = "M" -> {n * d * 24 * 3600 : d \in 28..31}

\* C26: a fetch of CCXTProvider.download_ohlcv that returns rows leaves the
\* cursor one bar of the provider's timeframe after the last row returned
\* (to the second), whatever the unit of the timeframe.
C26_CursorAdvancesOneBar ==
    [][(/\ provider = "ccxt"
        /\ Len(events') > Len(events)
        /\ IsFetch(Last(events'))
        /\ Last(events')[3] # <<>>
        /\ pc' = "loop")
            => \E duration \in C26_BarDurations(timeframe) :
                    ToSeconds(tf') = ToSeconds(Last(Last(events')[3])) + duration
      ]_vars

\* fetch_ohlcv has just returned no rows
C27_EmptyFetch ==
    /\ provider = "ccxt"
    /\ Len(events') = Len(events) + 2
    /\ Last(events') = Fetch(tf, <<>>)
    /\ error' # "fetch"

\* C27: a fetch of CCXTProvider.download_ohlcv that returns no rows moves
\* the cursor one day on, appends nothing and leaves the loop running; with
\* the cursor still before time_to the next thing done is another
\* iteration, at the new cursor.
C27_EmptyPageSkipsOneDay ==
    [][/\ C27_EmptyFetch
            => /\ tf' = tf + 24 * 3600 * 1000
               /\ all_data' = all_data
               /\ stored' = stored
               /\ pc' = "loop"
       /\ (/\ provider = "ccxt" /\ pc = "loop" /\ events # <<>>
           /\ Last(events) = Fetch(tf - 24 * 3600 * 1000, <<>>)
           /\ tf < time_to)
            => events'[Len(events) + 1] = Progress(tf)
      ]_vars

\* an empty page was followed by a fetch one day later
C27_Witness ==
    /\ provider = "ccxt"
    /\ pc = "loop"
    /\ \E i \in 1..Len(events) :
        /\ events[i] = Fetch(0, <<>>)
        /\ i + 2 <= Len(events)
        /\ events[i + 1] = Progress(24 * 3600 * 1000)
        /\ IsFetch(events[i + 2])
        /\ events[i + 2][2] = 24 * 3600 * 1000

\* the windows asked of get_historical_prices, in order: <<from, to>>
RECURSIVE C28_Windows(_)
C28_Windows(ev) ==
    IF ev = <<>> THEN <<>>
    ELSE C28_Windows(Front(ev))
            \o (IF IsFetch(Last(ev)) THEN <<<<Last(ev)[2], Last(ev)[4]>>>>
                                     ELSE <<>>)

\* seconds in the span of one window: 7 days for a timeframe of minutes, 30
\* days for one of hours, 365 days for the others
C28_Span(timeframe_) ==
    IF isdigit(timeframe_)
    THEN IF int(timeframe_) < 60 THEN 7 * 24 * 3600 ELSE 30 * 24 * 3600
    ELSE 365 * 24 * 3600

\* C28: the windows CapitalComProvider.download_ohlcv asks for follow one
\* another from time_from: each ends one span after its start or at
\* time_to, whichever comes first, and the next starts where it ends; a run
\* that returns has asked ceil((time_to - time_from) / span) windows, the
\* last ending at time_to, whatever the pages held.
C28_ConsecutiveWindows ==
    provider = "capitalcom" =>
        LET w == C28_Windows(events)
            span == C28_Span(timeframe)
        IN  /\ \A k \in 1..Len(w) :
                /\ w[k][1] = (IF k = 1 THEN time_from ELSE w[k - 1][2])
                /\ w[k][2] = Min(w[k][1] + span, time_to)
            /\ (pc = "returned" /\ time_from < time_to) =>
                /\ Len(w) = (time_to - time_from + span - 1) \div span
                /\ w[Len(w)][2] = time_to
            /\ (pc = "returned" /\ time_from >= time_to) => w = <<>>

\* a run over a span and a half has returned: two windows, the second cut
\* at time_to, the first page empty
C28_Witness ==
    /\ provider = "capitalcom"
    /\ pc = "returned"
    /\ Len(C28_Windows(events)) = 2
    /\ time_to - time_from < 2 * C28_Span(timeframe)
    /\ \E i \in 1..Len(events) : IsFetch(events[i]) /\ events[i][3] = <<>>

\* the places of the log that hold a callback, and those that hold a fetch
C29_Callbacks == {i \in 1..Len(events) : IsProgress(events[i])}

C29_Fetches == {i \in 1..Len(events) : IsFetch(events[i])}

\* C29: in download_ohlcv of either provider every fetch comes right after
\* an on_progress call made with the cursor the fetch starts from, and a run
\* that returns has made one callback more than it made fetches.
C29_CallbackBeforeEveryFetch ==
    provider \in {"ccxt", "capitalcom"} =>
        /\ \A i \in C29_Fetches :
                i > 1 /\ events[i - 1] = Progress(events[i][2])
        /\ pc = "returned" =>
                Cardinality(C29_Callbacks) = Cardinality(C29_Fetches) + 1

\* C30: once load_plugin(name) has succeeded, a later load_plugin(name)
\* returns the class without importing again, and through every later call
\* of the manager the descriptor of name has loaded = TRUE and no error.
C30_LoadedStaysLoaded ==
    [][\A n \in pm_loaded' :
        /\ n \in DOMAIN pm_discovered'
        /\ pm_discovered'[n].loaded
        /\ pm_discovered'[n].error = None
        /\ (n \in pm_loaded /\ pm_last'.op = "load_plugin"
                /\ pm_last'.name = n)
            => pm_last'.value = "class" /\ ~pm_last'.imported
      ]_vars


\* C31: the writer's part in a download.  Every bar is written while the
\* writer is open, and a use of a provider that has a writer and has ended,
\* by the download command or by a `with` block, has opened the writer
\* first and closed it last.
C31_Ended == wr_pc \in {"done", "propagated", "crashed"}
C31_WritesWhileOpen ==
    \A i \in DOMAIN wr_log : wr_log[i][1] = "write" => wr_log[i][3] = "open"
C31_WriterScoped ==
    /\ C31_WritesWhileOpen
    /\ (C31_Ended /\ wr_file # "none") =>
          /\ Len(wr_log) >= 2
          /\ wr_log[1] = <<"open">>
          /\ Last(wr_log) = <<"close">>
          /\ wr_file = "closed"

\* C32: get_ohlcv_path gives distinct (provider name, symbol, timeframe)
\* triples distinct bar files and distinct metadata files, and equal
\* triples the same files.
C32_DistinctTriplesDistinctPaths ==
    gp_pc = "done" =>
        /\ gp_first = gp_second => gp_paths[1] = gp_paths[2]
        /\ gp_first # gp_second =>
              /\ gp_paths[1] # gp_paths[2]
              /\ with_suffix_toml(gp_paths[1]) # with_suffix_toml(gp_paths[2])

\* C33: the template provider's download_ohlcv stores
\* floor(window minutes / timeframe minutes) bars; their timestamps
\* (seconds) start at time_from, increase by exactly one timeframe and lie
\* within [time_from, time_to]; a window with time_to <= time_from stores
\* nothing and raises nothing.
C33_BarSeconds ==
    [t \in {"1m", "5m", "15m", "30m", "1h", "4h", "1d"} |->
        CASE t = "1m" -> 60 [] t = "5m" -> 300 [] t = "15m" -> 900
          [] t = "30m" -> 1800 [] t = "1h" -> 3600 [] t = "4h" -> 14400
          [] t = "1d" -> 86400]
C33_TemplateBars ==
    tp_pc = "returned" =>
        /\ tp_error = NoException
        /\ IF tp_to <= tp_from
           THEN tp_stored = <<>>
           ELSE /\ Len(tp_stored) =
                      (tp_to - tp_from) \div C33_BarSeconds[tp_timeframe]
                /\ tp_stored # <<>> => tp_stored[1] = tp_from
                /\ \A i \in 1..(Len(tp_stored) - 1) :
                      tp_stored[i + 1] - tp_stored[i] =
                          C33_BarSeconds[tp_timeframe]
                /\ \A i \in DOMAIN tp_stored :
                      tp_from <= tp_stored[i] /\ tp_stored[i] <= tp_to

\* C34: the fetch loop of CCXTProvider.download_ohlcv terminates for every
\* finite window, whatever pages the source returns.
C34_LoopTerminates == <>(pc # "loop")

\* C35: discover_plugins(plugin_type=k) returns only descriptors whose
\* plugin_type is k, for every string k, and the built-in providers are in
\* the result only when k is None or "provider".
C35_Discovery ==
    pm_last.op = "discover_plugins" /\ pm_last.plugin_type # None
C35_FilterByType ==
    /\ C35_Discovery =>
          \A n \in DOMAIN pm_last.found :
              pm_last.found[n].plugin_type = pm_last.plugin_type[1]
    /\ (pm_last.op = "discover_plugins"
          /\ \E n \in DOMAIN pm_last.found :
                pm_last.found[n].module_name = "builtin") =>
          pm_last.plugin_type \in {None, Some("provider")}

\* C36: CCXTProvider.download_ohlcv appends no bar while its fetch loop
\* runs, and when a fetch raises an error other than StopIteration the
\* storage is as it was before the call (empty), however many pages had
\* been fetched.
C36_NothingStoredBeforeLoopEnds ==
    (provider = "ccxt" /\ (pc = "loop" \/ error = "fetch")) =>
        stored = <<>> /\ Saved(events) = <<>>
\* a fetch has raised after a page whose rows were collected
C36_Witness ==
    /\ provider = "ccxt" /\ pc = "raised" /\ error = "fetch"
    /\ all_data # <<>> /\ stored = <<>>

\* C37 as stated: a download_ohlcv call (CCXT or CapitalCom) that raises
\* has not invoked on_progress with time_to.
C37_RaisedWithoutFinalProgress ==
    pc = "raised" => Progress(time_to) \notin Range(events)
\* C37: a download_ohlcv call that raises has invoked on_progress with
\* time_to only as its very last step, and then the error is the one that
\* this callback raised; a call that raises for any other reason has not
\* invoked on_progress with time_to.
C37_FinalProgressOnlyAtTheEnd ==
    pc = "raised" =>
        \A i \in DOMAIN events :
            events[i] = Progress(time_to) =>
                i = Len(events) /\ error = "callback"
\* a call has raised after callbacks, none of them with time_to
C37_Witness ==
    /\ pc = "raised" /\ error = "fetch"
    /\ \E i \in DOMAIN events : IsProgress(events[i])
    /\ Progress(time_to) \notin Range(events)

\* C38: the price-scale loop of update_symbol_info (CCXT and CapitalCom)
\* exits for every tick size, zero and negative ones included.
C38_LoopExits == <>(ps_pc = "done")

\* C39: when update_symbol_info raises during get_symbol_info the metadata
\* file is as it was before the call, present or absent, and the next
\* get_symbol_info(force_update=False) on an absent file calls
\* update_symbol_info again.
C39_NothingPersistedOnError ==
    /\ (si_log # <<>> /\ Last(si_log).result = Raised) =>
          si_file = Last(si_log).before
    /\ \A i \in 1..(Len(si_log) - 1) :
          (/\ si_log[i].result = Raised
           /\ si_log[i].before = Absent
           /\ ~si_log[i + 1].force_update) =>
              /\ si_log[i + 1].before = Absent
              /\ si_log[i + 1].updates = 1
\* update_symbol_info has raised on an absent file, and the next call,
\* not forced, has fetched and saved the metadata
C39_Witness ==
    \E i \in 1..(Len(si_log) - 1) :
        /\ si_log[i].result = Raised /\ si_log[i].before = Absent
        /\ ~si_log[i + 1].force_update
        /\ si_log[i + 1].updates = 1
        /\ si_log[i + 1].result \in InfoValues

\* on_progress or fetch_ohlcv has just raised StopIteration inside the loop
C40_StoppedInLoop ==
    /\ CcxtInLoop
    /\ pc' # "loop"
    /\ Last(events') = Progress(time_to)

\* C40: when on_progress or the fetch raises StopIteration inside the loop
\* of CCXTProvider.download_ohlcv, the call returns: the rows collected so
\* far are appended, their timestamps (seconds) strictly increasing, and
\* on_progress(time_to) is invoked last.
C40_StopIterationEndsQuietly ==
    [][C40_StoppedInLoop =>
          /\ pc' = "returned" /\ raised' = NoException
          /\ Range(Saved(events')) = {ToSeconds(r) : r \in Range(all_data)}
          /\ StrictlyIncreasing(Saved(events'))
          /\ stored' = stored \o Saved(events')
      ]_vars

============================================================================
